---- MODULE Spec2Model ----
(***************************************************************************)
(* Model of the binding-and-layout core of the WebGPU shader library:      *)
(*   packages/core/src/uniforms.ts  - uniform layout, serialisation,       *)
(*                                    binding resolver, RenderTarget       *)
(*   packages/core/src/material.ts  - pipeline cache, compile diagnostics, *)
(*                                    bind groups of a draw                *)
(*   event-emitter.ts (unnamed/part_001) - event bus with ring history     *)
(* Each subsystem has its own specification (SpecLayout, SpecWrite,        *)
(* SpecEmitter, SpecDispatch, SpecTarget, SpecReadback, SpecBindings,      *)
(* SpecPipeline, SpecDraw); the variables of the other subsystems stay at  *)
(* their idle values.                                                      *)
(***************************************************************************)
EXTENDS Integers, Sequences, FiniteSets, TLC

VARIABLES
  \* --- uniform layout (calculateUniformBufferSize / updateUniformBuffer)
  uniforms,        \* the descriptor: values in declaration (for..in) order
  pc,              \* "new" -> "sized" -> "updated"
  uniformBufferSize, \* Material.uniformBufferSize
  gpuBuffer,       \* contents uploaded by device.queue.writeBuffer, <<>> if none
  calcAt,          \* per entry, the offset the size walk gave it (NoOffset: none)
  updateAt,        \* per entry, the offset the last update walk wrote it at
  \* --- writeUniformData called directly
  scratch,         \* the Float32Array handed to writeUniformData
  lastWrite,       \* the call made: [offset, value, written, before], or NoWrite
  \* --- EventEmitter
  history,         \* EventEmitter.history
  historyIndex,    \* EventEmitter.historyIndex
  isHistoryFull,   \* EventEmitter.isHistoryFull
  maxHistory,      \* EventEmitter.maxHistory
  types,           \* EventEmitter.types: [set, allowed]; set = FALSE is null
  listeners,       \* EventEmitter.listeners: event type -> listeners, in insertion order
  allListeners,    \* EventEmitter.allListeners, in insertion order
  eventIdCounter,  \* events.ts eventIdCounter
  recorded,        \* the events that passed the filter since the last clearHistory
  notified,        \* the listeners the last emit called, in call order
  options,         \* the EventEmitterOptions the emitter was constructed with
  trace,           \* what the emitter's callers and emit did, in order
  \* --- RenderTarget
  rt,              \* the RenderTarget object's fields (object ids, 0 = unset)
  gpu,             \* the device's objects: textures, views, samplers, by id
  textureRefs,     \* the TextureReference objects by id: their _gpuTexture
  memEvents,       \* the events handed to context.emitEvent, in order
  held,            \* the TextureReference a holder got from `texture` (0: none)
  holderView,      \* the view the holder last made with held.createView()
  resizes,         \* resize calls made
  reads,           \* the readPixels calls made, each with its staging buffer
  \* --- parseBindGroup1Bindings
  wgsl,            \* the shader source: its binding declarations, in text order
  bindings,        \* the WGSLBindings returned by the last parse
  parsed,          \* whether parseBindGroup1Bindings has run
  \* --- Material (its source is wgsl, its _uniforms are keys and uniforms)
  keys,            \* Object.keys(_uniforms), in the order of uniforms
  compilationInfo, \* the messages the compiler reports for the material's source
  pipelines,       \* Material.pipelines: format -> pipeline (0: no entry)
  storageBuffers,  \* Material.storageBuffers, in insertion order
  shaderModules,   \* the device's shader modules, with their diagnostics promise
  renderPipelines, \* the device's render pipelines
  unhandled,       \* the reasons of the rejected promises nobody handles
  pass,            \* the commands of the last draw's render pass
  warnings,        \* the console.warn calls of the last draw
  scans,           \* calls of parseBindGroup1Bindings made by draws
  draws,           \* drawInternal calls made
  drawnFormat      \* the format of the last draw ("": none yet)

layoutVars == <<uniforms, pc, uniformBufferSize, gpuBuffer, calcAt, updateAt>>
writeVars  == <<scratch, lastWrite>>
emitterVars == <<history, historyIndex, isHistoryFull, maxHistory, types,
                 listeners, allListeners, eventIdCounter, recorded, notified,
                 options, trace>>
targetVars == <<rt, gpu, textureRefs, memEvents, held, holderView, resizes, reads>>
parserVars == <<wgsl, bindings, parsed>>
materialVars == <<keys, compilationInfo, pipelines, storageBuffers, shaderModules,
                  renderPipelines, unhandled, pass, warnings, scans, draws, drawnFormat>>
vars == <<layoutVars, writeVars, emitterVars, targetVars, parserVars, materialVars>>

\* what each subsystem's actions leave alone
notLayout  == <<writeVars, emitterVars, targetVars, parserVars, materialVars>>
notWrite   == <<layoutVars, emitterVars, targetVars, parserVars, materialVars>>
notEmitter == <<layoutVars, writeVars, targetVars, parserVars, materialVars>>
notTarget  == <<layoutVars, writeVars, emitterVars, parserVars, materialVars>>
notParser  == <<layoutVars, writeVars, emitterVars, targetVars, materialVars>>
notMaterial == <<writeVars, emitterVars, targetVars>>

-----------------------------------------------------------------------------
(* Bounds *)
MaxEntries == 3      \* entries of a uniform descriptor
ScratchWords == 20   \* 4-byte words of the buffer handed to writeUniformData
MaxCapacity == 2     \* largest history capacity (historySize) tried
MaxResizes == 2      \* resize calls on one render target
MaxDecls == 2        \* binding declarations in a shader source
MaxBinding == 1      \* largest @binding number in a shader source
MaxDraws == 2        \* drawInternal calls on one material
MaxReads == 2        \* readPixels calls on one render target
MaxSubs == 2         \* on, once and onAll calls on one emitter
MaxDispatches == 2   \* emit calls made by the emitter's callers

-----------------------------------------------------------------------------
(* JavaScript values a uniform can hold *)
Num(n)   == [kind |-> "number",  val |-> n, elems |-> <<>>, props |-> {}]
Bool(b)  == [kind |-> "boolean", val |-> b, elems |-> <<>>, props |-> {}]
Arr(s)   == [kind |-> "array",   val |-> 0, elems |-> s,    props |-> {}]
Obj(ps)  == [kind |-> "object",  val |-> 0, elems |-> <<>>, props |-> ps]
Str      == [kind |-> "string",  val |-> 0, elems |-> <<>>, props |-> {}]
Null     == [kind |-> "null",    val |-> 0, elems |-> <<>>, props |-> {}]

Iota(n) == [i \in 1..n |-> i]

ArrayLengths == {2, 3, 4, 5, 9, 16}

Values ==
  {Num(7), Bool(1), Bool(0), Str, Null,
   Obj({"createView"}), Obj({"texture", "sampler"}), Obj({})}
  \cup {Arr(Iota(n)) : n \in ArrayLengths}

\* typeof value
TypeOf(v) == IF v.kind \in {"array", "object", "null"} THEN "object" ELSE v.kind
\* Array.isArray(value)
IsArray(v) == v.kind = "array"
\* truthiness of value in `value && ...`
Truthy(v) == CASE v.kind = "null" -> FALSE
               [] v.kind = "string" -> TRUE       \* a non-empty string
               [] v.kind \in {"number", "boolean"} -> v.val # 0
               [] OTHER -> TRUE
\* "name" in value
HasProp(v, name) == name \in v.props

CeilDiv(a, b) == (a + b - 1) \div b

-----------------------------------------------------------------------------
(* uniforms.ts: size and alignment tables *)

\* faulty variant: the padded size of a 3-vector and 4 bytes per element for any
\* other array
getUniformSize_padded(value) ==
  IF value.kind \in {"number", "boolean"} THEN 4
  ELSE IF value.kind = "array" /\ Len(value.elems) = 3 THEN 16
  ELSE IF value.kind = "array" THEN 4 * Len(value.elems)
  ELSE 0

getUniformSize(value) ==
  IF TypeOf(value) = "number" THEN 4
  ELSE IF TypeOf(value) = "boolean" THEN 4
  ELSE IF IsArray(value) /\ Len(value.elems) = 2 THEN 8
  ELSE IF IsArray(value) /\ Len(value.elems) = 3 THEN 12
  ELSE IF IsArray(value) /\ Len(value.elems) = 4 THEN 16
  ELSE IF IsArray(value) /\ Len(value.elems) = 9 THEN 48
  ELSE IF IsArray(value) /\ Len(value.elems) = 16 THEN 64
  ELSE 0

\* faulty variant: a 3-vector aligned to its own size
getUniformAlignment_vec3(value) ==
  IF value.kind \in {"number", "boolean"} THEN 4
  ELSE IF value.kind = "array" /\ Len(value.elems) = 2 THEN 8
  ELSE IF value.kind = "array" /\ Len(value.elems) = 3 THEN 12
  ELSE 16

getUniformAlignment(value) ==
  IF TypeOf(value) = "number" THEN 4
  ELSE IF TypeOf(value) = "boolean" THEN 4
  ELSE IF IsArray(value) /\ Len(value.elems) = 2 THEN 8
  ELSE IF IsArray(value) /\ Len(value.elems) = 3 THEN 16
  ELSE IF IsArray(value) /\ Len(value.elems) = 4 THEN 16
  ELSE IF IsArray(value) /\ Len(value.elems) = 9 THEN 16
  ELSE IF IsArray(value) /\ Len(value.elems) = 16 THEN 16
  ELSE 16

\* the test guarding `continue` in both walks
IsTextureUniform(value) ==
  /\ Truthy(value)
  /\ TypeOf(value) = "object"
  /\ (HasProp(value, "createView") \/ HasProp(value, "texture"))

\* faulty variant: Math.floor in place of Math.ceil
AlignOffset_floor(offset, alignment) == (offset \div alignment) * alignment

\* offset = Math.ceil(offset / alignment) * alignment
AlignOffset(offset, alignment) == CeilDiv(offset, alignment) * alignment

-----------------------------------------------------------------------------
(* calculateUniformBufferSize: the loop as a left fold.  The fold state is *)
(* [offset, at]: the running offset and, per entry, the offset the entry   *)
(* was placed at (NoOffset when it was skipped).                           *)
NoOffset == 0 - 1

CalcStep(st, value) ==
  IF IsTextureUniform(value) THEN [offset |-> st.offset, at |-> Append(st.at, NoOffset)]
  ELSE LET valueSize == getUniformSize(value)
           alignment == getUniformAlignment(value)
       IN IF valueSize > 0
          THEN LET o == AlignOffset(st.offset, alignment)
               IN [offset |-> o + valueSize, at |-> Append(st.at, o)]
          ELSE [offset |-> st.offset, at |-> Append(st.at, NoOffset)]

RECURSIVE CalcWalk(_, _)
CalcWalk(us, n) ==
  IF n = 0 THEN [offset |-> 0, at |-> <<>>]
  ELSE CalcStep(CalcWalk(us, n - 1), us[n])

\* faulty variant: the final round-up to 16 left out
calculateUniformBufferSize_raw(us) == CalcWalk(us, Len(us)).offset

calculateUniformBufferSize(us) ==
  LET offset == CalcWalk(us, Len(us)).offset
  IN IF offset > 0 THEN CeilDiv(offset, 16) * 16 ELSE 0

\* offsets the size walk assigns, per entry
CalcOffsets(us) == CalcWalk(us, Len(us)).at

-----------------------------------------------------------------------------
(* Float32Array contents: one cell per 4-byte word.  A cell records the    *)
(* bit pattern as the view that wrote it and the number written; all-zero  *)
(* bits are the same cell whichever view wrote them.                       *)
ZeroWord == [enc |-> "zero", val |-> 0]
F32(x) == IF x = 0 THEN ZeroWord ELSE [enc |-> "f32", val |-> x]
U32(x) == IF x = 0 THEN ZeroWord ELSE [enc |-> "u32", val |-> x]

NewFloat32Array(words) == [i \in 1..words |-> ZeroWord]

\* data[index] = cell, for a 0-based element index; a store outside the
\* array is dropped
SetWord(data, index, cell) ==
  IF index + 1 \in DOMAIN data THEN [data EXCEPT ![index + 1] = cell] ELSE data

\* writeUniformData(data, offset, value): the array after the call and the
\* number returned
writeUniformData(data, offset, value) ==
  LET i == offset \div 4
      e == value.elems
  IN IF TypeOf(value) = "number"
       THEN [data |-> SetWord(data, i, F32(value.val)), written |-> 4]
     ELSE IF TypeOf(value) = "boolean"
       THEN [data |-> SetWord(data, i, U32(IF value.val # 0 THEN 1 ELSE 0)),
             written |-> 4]
     ELSE IF IsArray(value) /\ Len(e) = 2
       THEN [data |-> SetWord(SetWord(data, i, F32(e[1])), i + 1, F32(e[2])),
             written |-> 8]
     ELSE IF IsArray(value) /\ Len(e) = 3
       THEN [data |-> SetWord(SetWord(SetWord(data, i, F32(e[1])),
                                      i + 1, F32(e[2])), i + 2, F32(e[3])),
             written |-> 12]
     ELSE IF IsArray(value) /\ Len(e) = 4
       THEN [data |-> SetWord(SetWord(SetWord(SetWord(data, i, F32(e[1])),
                                      i + 1, F32(e[2])), i + 2, F32(e[3])),
                              i + 3, F32(e[4])),
             written |-> 16]
     ELSE [data |-> data, written |-> 0]

-----------------------------------------------------------------------------
(* updateUniformBuffer: the loop as a left fold over [offset, at, data].   *)
UpdateStep(st, value) ==
  IF IsTextureUniform(value)
    THEN [offset |-> st.offset, at |-> Append(st.at, NoOffset), data |-> st.data]
  ELSE LET valueSize == getUniformSize(value)
           alignment == getUniformAlignment(value)
       IN IF valueSize > 0
          THEN LET o == AlignOffset(st.offset, alignment)
                   w == writeUniformData(st.data, o, value)
               IN [offset |-> o + w.written, at |-> Append(st.at, o), data |-> w.data]
          ELSE [offset |-> st.offset, at |-> Append(st.at, NoOffset), data |-> st.data]

RECURSIVE UpdateWalk(_, _, _)
UpdateWalk(us, n, bufferSize) ==
  IF n = 0 THEN [offset |-> 0, at |-> <<>>, data |-> NewFloat32Array(bufferSize \div 4)]
  ELSE UpdateStep(UpdateWalk(us, n - 1, bufferSize), us[n])

\* offsets the update walk writes each entry at
UpdateOffsets(us, bufferSize) == UpdateWalk(us, Len(us), bufferSize).at

\* what updateUniformBuffer uploads; the buffer is left as it was when
\* bufferSize is 0
updateUniformBuffer(buffer, us, bufferSize) ==
  IF bufferSize = 0 THEN buffer
  ELSE UpdateWalk(us, Len(us), bufferSize).data

-----------------------------------------------------------------------------
(* Idle values of each subsystem's variables *)
LayoutIdle ==
  /\ uniforms = <<>>
  /\ pc = "idle"
  /\ uniformBufferSize = 0
  /\ gpuBuffer = <<>>
  /\ calcAt = <<>>
  /\ updateAt = <<>>

NoWrite == [offset |-> NoOffset, value |-> Null, written |-> 0, before |-> <<>>]

WriteIdle ==
  /\ scratch = <<>>
  /\ lastWrite = NoWrite

-----------------------------------------------------------------------------
(* EventEmitter (event-emitter.ts) *)
EventTypes == {"draw", "memory"}
MaxEmits == MaxCapacity + 2     \* emits per behaviour: enough to wrap twice

NoTypes == [set |-> FALSE, allowed |-> {}]

\* EventEmitterOptions.types: left out, or an array of event types
TypesOmitted == [given |-> FALSE, list |-> <<>>]
TypesOptions ==
  {TypesOmitted} \cup
  {[given |-> TRUE, list |-> q] :
     q \in {<<>>, <<"draw">>, <<"memory">>, <<"draw", "memory">>}}
NoOptions == [types |-> TypesOmitted, historySize |-> 0]

\* faulty variant: an allow-list is never installed
EventEmitter_types_null(opts) == NoTypes

\* this.types = options.types ? new Set(options.types) : null
\* (an array, also the empty one, is truthy)
EventEmitter_types(opts) ==
  IF opts.types.given
  THEN [set |-> TRUE,
        allowed |-> {opts.types.list[k] : k \in DOMAIN opts.types.list}]
  ELSE NoTypes

EmitterIdle ==
  /\ history = <<>>
  /\ historyIndex = 0
  /\ isHistoryFull = FALSE
  /\ maxHistory = 0
  /\ types = NoTypes
  /\ listeners = [t \in EventTypes |-> <<>>]
  /\ allListeners = <<>>
  /\ eventIdCounter = 0
  /\ recorded = <<>>
  /\ notified = <<>>
  /\ options = NoOptions
  /\ trace = <<>>

\* this.types && !this.types.has(event.type)
Filtered(ts, event) == ts.set /\ event.type \notin ts.allowed

\* faulty variant: the slot is always appended, never overwritten
RecordEvent_push(h, idx, full, max, event) ==
  [history |-> Append(h, event),
   historyIndex |-> (idx + 1) % max,
   isHistoryFull |-> full \/ (idx + 1) % max = 0]

\* emit, the history part (maxHistory > 0)
RecordEvent(h, idx, full, max, event) ==
  LET h2 == IF full THEN [h EXCEPT ![idx + 1] = event] ELSE Append(h, event)
      idx2 == (idx + 1) % max
  IN [history |-> h2,
      historyIndex |-> idx2,
      isHistoryFull |-> IF idx2 = 0 /\ ~full THEN TRUE ELSE full]

\* emit, the dispatch part: the listeners of the event's type, then the
\* listeners of all events
Dispatch(ls, all, event) == ls[event.type] \o all

\* faulty variant: the ring is returned as stored, without rotation
getHistory_unrotated(h, idx, full, filter) ==
  IF Len(filter) > 0 THEN SelectSeq(h, LAMBDA e : \E k \in DOMAIN filter : filter[k] = e.type)
  ELSE h

\* getHistory(filter); filter = <<>> is the call without a filter
getHistory(h, idx, full, filter) ==
  LET relevantHistory ==
        IF full THEN SubSeq(h, idx + 1, Len(h)) \o SubSeq(h, 1, idx) ELSE h
  IN IF Len(filter) > 0
     THEN SelectSeq(relevantHistory,
                    LAMBDA e : \E k \in DOMAIN filter : filter[k] = e.type)
     ELSE relevantHistory

-----------------------------------------------------------------------------
(* RenderTarget and TextureReference (uniforms.ts) *)
TextureFormats == {"rgba8unorm", "rgba16float", "r16float", "rg16float", "r32float"}
Usages == {"render", "storage", "both"}
Sizes == {1, 2}                 \* widths and heights tried

bytesPerPixel ==
  [rgba8unorm |-> 4, rgba16float |-> 8, r16float |-> 2, rg16float |-> 4, r32float |-> 4]

calculateTextureSize(width, height, format) == width * height * bytesPerPixel[format]

NoTarget ==
  [state |-> "none", width |-> 0, height |-> 0, format |-> "rgba8unorm",
   filter |-> "linear", wrap |-> "clamp", usage |-> "render", context |-> FALSE,
   gpuTexture |-> 0, textureRef |-> 0, view |-> 0, sampler |-> 0]
NoDevice == [textures |-> <<>>, views |-> <<>>, samplers |-> <<>>]
NoView == [tex |-> 0, newest |-> 0, destroyed |-> FALSE, state |-> "none"]

TargetIdle ==
  /\ rt = NoTarget
  /\ gpu = NoDevice
  /\ textureRefs = <<>>
  /\ memEvents = <<>>
  /\ held = 0
  /\ holderView = NoView
  /\ resizes = 0
  /\ reads = <<>>

\* the usage flags createTexture asks for
TextureUsageFlags(usage) ==
  {"TEXTURE_BINDING", "COPY_SRC"}
    \cup (IF usage \in {"render", "both"} THEN {"RENDER_ATTACHMENT"} ELSE {})
    \cup (IF usage \in {"storage", "both"} THEN {"STORAGE_BINDING"} ELSE {})

\* faulty variant: the texture is left alive
DestroyTexture_none(dev, id) == dev

\* GPUTexture.destroy(); destroys counts the calls and destroyedAt notes how
\* many textures the device had made when the first call came
DestroyTexture(dev, id) ==
  [dev EXCEPT !.textures =
     [@ EXCEPT ![id] = [@ EXCEPT !.destroyed = TRUE,
                                 !.destroys = @ + 1,
                                 !.destroyedAt = IF dev.textures[id].destroyed
                                                 THEN @ ELSE Len(dev.textures)]]]

\* faulty variant: a new TextureReference is made on every call
createTexture_newRef(r, dev, refs) ==
  LET tex == Len(dev.textures) + 1
      view == Len(dev.views) + 1
  IN [rt |-> [r EXCEPT !.gpuTexture = tex, !.view = view,
                       !.textureRef = Len(refs) + 1],
      gpu |-> [dev EXCEPT
                 !.textures = Append(@, [width |-> r.width, height |-> r.height,
                                         format |-> r.format,
                                         usage |-> TextureUsageFlags(r.usage),
                                         destroyed |-> FALSE, destroys |-> 0,
                                         destroyedAt |-> 0]),
                 !.views = Append(@, [tex |-> tex])],
      refs |-> Append(refs, tex)]

\* RenderTarget.createTexture: the target's fields, the device's objects and
\* the TextureReference objects after the call
createTexture(r, dev, refs) ==
  LET tex == Len(dev.textures) + 1
      view == Len(dev.views) + 1
      dev2 == [dev EXCEPT
                 !.textures = Append(@, [width |-> r.width, height |-> r.height,
                                         format |-> r.format,
                                         usage |-> TextureUsageFlags(r.usage),
                                         destroyed |-> FALSE, destroys |-> 0,
                                         destroyedAt |-> 0]),
                 !.views = Append(@, [tex |-> tex])]
  IN IF r.textureRef = 0
     THEN [rt |-> [r EXCEPT !.gpuTexture = tex, !.view = view,
                            !.textureRef = Len(refs) + 1],
           gpu |-> dev2,
           refs |-> Append(refs, tex)]
     ELSE [rt |-> [r EXCEPT !.gpuTexture = tex, !.view = view],
           gpu |-> dev2,
           refs |-> [refs EXCEPT ![r.textureRef] = tex]]

\* RenderTarget.createSampler
AddressMode(wrap) ==
  IF wrap = "clamp" THEN "clamp-to-edge"
  ELSE IF wrap = "repeat" THEN "repeat" ELSE "mirror-repeat"
createSampler(r, dev) ==
  [rt |-> [r EXCEPT !.sampler = Len(dev.samplers) + 1],
   gpu |-> [dev EXCEPT !.samplers =
              Append(@, [magFilter |-> r.filter, minFilter |-> r.filter,
                         addressModeU |-> AddressMode(r.wrap),
                         addressModeV |-> AddressMode(r.wrap)])]]

\* faulty variant: the size is the pixel count
MemoryEvent_pixels(r, action) ==
  [type |-> "memory", resourceType |-> "texture",
   size |-> r.width * r.height, action |-> action]

MemoryEvent(r, action) ==
  [type |-> "memory", resourceType |-> "texture",
   size |-> calculateTextureSize(r.width, r.height, r.format), action |-> action]

\* this.context.emitEvent(event), when the target has a context
EmitMemory(r, action) ==
  IF r.context THEN Append(memEvents, MemoryEvent(r, action)) ELSE memEvents

\* TextureReference.texture
TextureReference_texture(ref) == textureRefs[ref]

-----------------------------------------------------------------------------
(* parseBindGroup1Bindings (uniforms.ts).  The source text is modelled by  *)
(* its `@group(g) @binding(b) var<modifier> name : type;` statements; a    *)
(* statement is the record of the parts the regular expression captures.  *)
(* A type is the sequence of the pieces of its text, so that               *)
(* type.includes(marker) is the presence of the marker among the pieces.   *)
NoSlot == 0 - 1                 \* undefined
NoModifier == ""                \* `var name`, match[2] undefined

Names == {"a", "b"}
Slots == 0..MaxBinding

Decl(g, b, m, n, t) == [group |-> g, binding |-> b, modifier |-> m, name |-> n, type |-> t]

\* <<modifier, type>> of the declarations tried
DeclShapes ==
  {<<"uniform", <<"Params">>>>,
   <<"uniform", <<"array<", "vec4f, 4>">>>>,
   <<"storage", <<"Particles">>>>,
   <<"storage, read", <<"array<", "f32>">>>>,
   <<"storage, read_write", <<"Particles">>>>,
   <<NoModifier, <<"texture_", "2d<f32>">>>>,
   <<NoModifier, <<"texture_", "2d_", "array<", "f32>">>>>,
   <<NoModifier, <<"sampler">>>>,
   <<NoModifier, <<"texture_", "and_", "sampler", "_t">>>>}

Group1Decls == {Decl(1, b, sh[1], n, sh[2]) : b \in Slots, n \in Names, sh \in DeclShapes}
OtherGroupDecls ==
  {Decl(g, 0, sh[1], "a", sh[2]) :
     g \in {0, 2}, sh \in {<<"uniform", <<"Params">>>>, <<NoModifier, <<"texture_", "2d<f32>">>>>}}
\* the source `@group(1) @binding(0) var<uniform> u: Params;`
ParamsExample == <<Decl(1, 0, "uniform", "u", <<"Params">>)>>
Sources ==
  UNION {[1..n -> Group1Decls \cup OtherGroupDecls] : n \in 0..MaxDecls}
    \cup {ParamsExample}

\* every variable name that occurs in a source tried
Identifiers ==
  Names \cup {"u", "k", "img", "imgTex",
              "imgSampler", "img_sampler", "imgTexSampler", "imgTex_sampler",
              "Sampler"}

\* a Map is the function from the names to their slot, NoSlot where the Map
\* has no entry
EmptyBindings ==
  [uniformBuffer |-> NoSlot,
   textures |-> [n \in Identifiers |-> NoSlot],
   samplers |-> [n \in Identifiers |-> NoSlot],
   storage |-> [n \in Identifiers |-> NoSlot]]

ParserIdle ==
  /\ wgsl = <<>>
  /\ bindings = EmptyBindings
  /\ parsed = FALSE

\* faulty variant: the expression accepts any group number
RegexMatches_anyGroup(decl) == decl.group \in Nat

\* the regular expression matches the statement: it names group 1
RegexMatches(decl) == decl.group = 1

\* type.includes(marker)
Includes(type, marker) == \E i \in DOMAIN type : type[i] = marker

\* faulty variant: the texture test comes before the storage test
ParseStep_textureFirst(b, decl) ==
  IF ~RegexMatches(decl) THEN b
  ELSE IF decl.modifier = "uniform" THEN [b EXCEPT !.uniformBuffer = decl.binding]
  ELSE IF Includes(decl.type, "texture_")
    THEN [b EXCEPT !.textures = [@ EXCEPT ![decl.name] = decl.binding]]
  ELSE IF decl.modifier = "storage" \/ Includes(decl.type, "array<")
    THEN [b EXCEPT !.storage = [@ EXCEPT ![decl.name] = decl.binding]]
  ELSE IF Includes(decl.type, "sampler")
    THEN [b EXCEPT !.samplers = [@ EXCEPT ![decl.name] = decl.binding]]
  ELSE b

\* the body of the `while ((match = regex.exec(wgsl)) !== null)` loop
ParseStep(b, decl) ==
  IF ~RegexMatches(decl) THEN b
  ELSE IF decl.modifier = "uniform" THEN [b EXCEPT !.uniformBuffer = decl.binding]
  ELSE IF decl.modifier = "storage" \/ Includes(decl.type, "array<")
    THEN [b EXCEPT !.storage = [@ EXCEPT ![decl.name] = decl.binding]]
  ELSE IF Includes(decl.type, "texture_")
    THEN [b EXCEPT !.textures = [@ EXCEPT ![decl.name] = decl.binding]]
  ELSE IF Includes(decl.type, "sampler")
    THEN [b EXCEPT !.samplers = [@ EXCEPT ![decl.name] = decl.binding]]
  ELSE b

RECURSIVE ParseWalk(_, _)
ParseWalk(src, n) ==
  IF n = 0 THEN EmptyBindings ELSE ParseStep(ParseWalk(src, n - 1), src[n])

parseBindGroup1Bindings(src) == ParseWalk(src, Len(src))

-----------------------------------------------------------------------------
(* Material (material.ts): pipeline cache, compile diagnostics and the     *)
(* bind groups of a draw.  The material's source is wgsl; its _uniforms    *)
(* are keys (the names) and uniforms (the values), in the same order.      *)
PipelineFormats == {"bgra8unorm", "rgba16float"}
StorageNames == {"a", "b"}      \* names handed to storage()
StorageBufferIds == {1, 2}      \* the StorageBuffer objects handed to storage()

NoPipelines == [f \in PipelineFormats |-> 0]
NoError == [name |-> "", message |-> "", line |-> 0, column |-> 0, source |-> <<>>]

MaterialIdle ==
  /\ keys = <<>>
  /\ compilationInfo = <<>>
  /\ pipelines = NoPipelines
  /\ storageBuffers = <<>>
  /\ shaderModules = <<>>
  /\ renderPipelines = <<>>
  /\ unhandled = <<>>
  /\ pass = <<>>
  /\ warnings = <<>>
  /\ scans = 0
  /\ draws = 0
  /\ drawnFormat = ""

\* getGlobalsWGSL(): the Globals struct and its group-0 declaration
GlobalsWGSL == <<Decl(0, 0, "uniform", "globals", <<"Globals">>)>>

\* a GPUCompilationMessage
Message(type, text, lineNum, linePos) ==
  [type |-> type, message |-> text, lineNum |-> lineNum, linePos |-> linePos]
\* the info.messages a compiler can report for a source
CompilationInfos ==
  {<<>>,
   <<Message("warning", "unused variable", 2, 5)>>,
   <<Message("error", "unresolved type", 3, 9)>>,
   <<Message("warning", "unused variable", 2, 5),
     Message("error", "unresolved type", 3, 9)>>,
   <<Message("error", "unresolved type", 3, 9),
     Message("error", "missing return", 7, 1)>>}

\* new ShaderCompileError(message, line, column, source)
ShaderCompileError(message, line, column, source) ==
  [name |-> "ShaderCompileError", message |-> message, line |-> line,
   column |-> column, source |-> source]

\* faulty variant: the cache is never consulted
getPipeline_noCache(cache, modules, rps, src, info, format) ==
  LET ms == Append(modules, [code |-> GlobalsWGSL \o src, messages |-> info,
                             derived |-> "pending", reason |-> NoError])
      rp == Append(rps, [format |-> format, module |-> Len(ms)])
  IN [pipelines |-> [cache EXCEPT ![format] = Len(rp)],
      shaderModules |-> ms, renderPipelines |-> rp, pipeline |-> Len(rp)]

\* getPipeline(format).  createShaderModule and createRenderPipeline return
\* at once; getCompilationInfo() returns a pending promise, and the promise
\* that .then(callback) derives from it is kept by nobody.
getPipeline(cache, modules, rps, src, info, format) ==
  IF cache[format] # 0
  THEN [pipelines |-> cache, shaderModules |-> modules, renderPipelines |-> rps,
        pipeline |-> cache[format]]
  ELSE LET fullWGSL == GlobalsWGSL \o src
           ms == Append(modules, [code |-> fullWGSL, messages |-> info,
                                  derived |-> "pending", reason |-> NoError])
           rp == Append(rps, [format |-> format, module |-> Len(ms)])
       IN [pipelines |-> [cache EXCEPT ![format] = Len(rp)],
           shaderModules |-> ms, renderPipelines |-> rp, pipeline |-> Len(rp)]

\* the first message of type "error", 0 if there is none
FirstError(messages) ==
  IF \E i \in DOMAIN messages : messages[i].type = "error"
  THEN CHOOSE i \in DOMAIN messages :
         /\ messages[i].type = "error"
         /\ \A j \in 1..(i - 1) : messages[j].type # "error"
  ELSE 0

\* the callback handed to shaderInfo.then: how the derived promise settles
CompilationInfoCallback(module) ==
  LET i == FirstError(module.messages)
  IN IF i # 0
     THEN [derived |-> "rejected",
           reason |-> ShaderCompileError(module.messages[i].message,
                                         module.messages[i].lineNum,
                                         module.messages[i].linePos,
                                         module.code)]
     ELSE [derived |-> "fulfilled", reason |-> NoError]

\* Map.set(name, buffer) on storageBuffers
MapSet(m, name, buffer) ==
  IF \E i \in DOMAIN m : m[i].name = name
  THEN [i \in DOMAIN m |-> IF m[i].name = name
                           THEN [name |-> name, buffer |-> buffer] ELSE m[i]]
  ELSE Append(m, [name |-> name, buffer |-> buffer])

\* Map.get(name): NoSlot is undefined
MapGet(m, name) == IF name \in DOMAIN m THEN m[name] ELSE NoSlot

\* collectTextureBindings(uniforms): the Map's entries in insertion order
RECURSIVE CollectWalk(_, _, _)
CollectWalk(ks, us, n) ==
  IF n = 0 THEN <<>>
  ELSE LET value == us[n]
           rest == CollectWalk(ks, us, n - 1)
       IN IF Truthy(value) /\ TypeOf(value) = "object"
          THEN IF HasProp(value, "createView")
               THEN Append(rest, [name |-> ks[n], sampler |-> FALSE])
               ELSE IF HasProp(value, "texture")
               THEN Append(rest, [name |-> ks[n], sampler |-> HasProp(value, "sampler")])
               ELSE rest
          ELSE rest
collectTextureBindings(ks, us) == CollectWalk(ks, us, Len(us))

\* name.endsWith("Tex") and name.slice(0, -3), over the texture names tried
Prefixes == {"", "i", "im", "img", "imgT", "imgTe", "imgTex"}
LastThree == {"img", "Tex"}
EndsWithTex(name) == \E p \in Prefixes : name = p \o "Tex"
SliceTex(name) == CHOOSE p \in Prefixes : \E t \in LastThree : name = p \o t

\* faulty variant: the base name is tried whatever the name ends in
SamplerBinding_anySuffix(b, name) ==
  LET s1 == MapGet(b.samplers, name \o "Sampler")
      s2 == IF s1 = NoSlot THEN MapGet(b.samplers, name \o "_sampler") ELSE s1
  IN IF s2 = NoSlot THEN MapGet(b.samplers, SliceTex(name) \o "Sampler") ELSE s2

\* faulty variant: `<name>_sampler` is tried before `<name>Sampler`
SamplerBinding_underscoreFirst(b, name) ==
  LET s1 == MapGet(b.samplers, name \o "_sampler")
      s2 == IF s1 = NoSlot THEN MapGet(b.samplers, name \o "Sampler") ELSE s1
  IN IF s2 = NoSlot /\ EndsWithTex(name)
     THEN MapGet(b.samplers, SliceTex(name) \o "Sampler")
     ELSE s2

\* the sampler slot found by the naming convention, NoSlot if none
SamplerBinding(b, name) ==
  LET s1 == MapGet(b.samplers, name \o "Sampler")
      s2 == IF s1 = NoSlot THEN MapGet(b.samplers, name \o "_sampler") ELSE s1
  IN IF s2 = NoSlot /\ EndsWithTex(name)
     THEN MapGet(b.samplers, SliceTex(name) \o "Sampler")
     ELSE s2

\* a GPUBindGroupEntry: the slot, the kind of resource and whose it is
Entry(binding, kind, of) == [binding |-> binding, kind |-> kind, of |-> of]
NoAssembly == [entries |-> <<>>, warnings |-> <<>>]

\* faulty variant: without a discovered slot the buffer is bound at 0
UniformEntry_default0(b, hasBuffer) ==
  IF hasBuffer
  THEN <<Entry(IF b.uniformBuffer # NoSlot THEN b.uniformBuffer ELSE 0,
               "uniformBuffer", "")>>
  ELSE <<>>

\* the entry of the user uniform buffer, if there is a buffer and a slot
UniformEntry(b, hasBuffer) ==
  IF hasBuffer /\ b.uniformBuffer # NoSlot
  THEN <<Entry(b.uniformBuffer, "uniformBuffer", "")>>
  ELSE <<>>

\* faulty variant: a texture whose sampler is not found is left out, silently
TextureStep_dropTexture(acc, b, tex) ==
  LET textureBinding == MapGet(b.textures, tex.name)
      withTexture == Append(acc.entries, Entry(textureBinding, "textureView", tex.name))
      samplerBinding == SamplerBinding(b, tex.name)
  IN IF textureBinding = NoSlot THEN acc
     ELSE IF ~tex.sampler THEN [acc EXCEPT !.entries = withTexture]
     ELSE IF samplerBinding # NoSlot
       THEN [acc EXCEPT !.entries =
               Append(withTexture, Entry(samplerBinding, "sampler", tex.name))]
     ELSE acc

\* the body of `for (const [name, { texture, sampler }] of textures)`
TextureStep(acc, b, tex) ==
  LET textureBinding == MapGet(b.textures, tex.name)
      withTexture == Append(acc.entries, Entry(textureBinding, "textureView", tex.name))
      samplerBinding == SamplerBinding(b, tex.name)
  IN IF textureBinding = NoSlot THEN acc
     ELSE IF ~tex.sampler THEN [acc EXCEPT !.entries = withTexture]
     ELSE IF samplerBinding # NoSlot
       THEN [acc EXCEPT !.entries =
               Append(withTexture, Entry(samplerBinding, "sampler", tex.name))]
     ELSE [entries |-> withTexture, warnings |-> Append(acc.warnings, tex.name)]

RECURSIVE TextureWalk(_, _, _)
TextureWalk(b, texs, n) ==
  IF n = 0 THEN NoAssembly ELSE TextureStep(TextureWalk(b, texs, n - 1), b, texs[n])

\* the body of `for (const [name, buffer] of this.storageBuffers)`
StorageStep(entries, b, sb) ==
  IF MapGet(b.storage, sb.name) # NoSlot
  THEN Append(entries, Entry(MapGet(b.storage, sb.name), "storageBuffer", sb.name))
  ELSE entries

RECURSIVE StorageWalk(_, _, _)
StorageWalk(b, sbs, n) ==
  IF n = 0 THEN <<>> ELSE StorageStep(StorageWalk(b, sbs, n - 1), b, sbs[n])

\* bindGroupEntries and the warnings logged while it is filled
AssembleGroup1(b, hasBuffer, texs, sbs) ==
  LET t == TextureWalk(b, texs, Len(texs))
  IN [entries |-> UniformEntry(b, hasBuffer) \o t.entries
                    \o StorageWalk(b, sbs, Len(sbs)),
      warnings |-> t.warnings]

\* the calls on the pass encoder
Command(op, index, pipeline, entries) ==
  [op |-> op, index |-> index, pipeline |-> pipeline, entries |-> entries]
GlobalsEntries == <<Entry(0, "globalsBuffer", "")>>

\* faulty variant: group 1 is built and set whatever the entries are
PassCommands_alwaysGroup1(pipeline, entries) ==
  <<Command("setPipeline", 0, pipeline, <<>>),
    Command("setBindGroup", 0, 0, GlobalsEntries),
    Command("setBindGroup", 1, 0, entries),
    Command("draw", 0, 0, <<>>),
    Command("end", 0, 0, <<>>)>>

PassCommands(pipeline, entries) ==
  <<Command("setPipeline", 0, pipeline, <<>>),
    Command("setBindGroup", 0, 0, GlobalsEntries)>>
  \o (IF Len(entries) > 0 THEN <<Command("setBindGroup", 1, 0, entries)>> ELSE <<>>)
  \o <<Command("draw", 0, 0, <<>>), Command("end", 0, 0, <<>>)>>

-----------------------------------------------------------------------------
(* SpecLayout: a material is built over a descriptor and drawn *)
\* the wave example's uniforms: {amplitude: scalar, frequency: scalar,
\* color: 3-vector}
Wave == <<Num(7), Num(7), Arr(Iota(3))>>

Descriptors == UNION {[1..n -> Values] : n \in 0..MaxEntries}

InitLayout ==
  /\ uniforms \in Descriptors
  /\ pc = "new"
  /\ uniformBufferSize = 0
  /\ gpuBuffer = <<>>
  /\ calcAt = <<>>
  /\ updateAt = <<>>
  /\ WriteIdle /\ EmitterIdle /\ TargetIdle /\ ParserIdle /\ MaterialIdle

\* Material constructor: size the buffer
CalculateSize ==
  /\ pc = "new"
  /\ uniformBufferSize' = calculateUniformBufferSize(uniforms)
  /\ calcAt' = CalcOffsets(uniforms)
  /\ pc' = "sized"
  /\ UNCHANGED <<uniforms, gpuBuffer, updateAt, notLayout>>

\* Material.drawInternal: upload the uniforms
UpdateBuffer ==
  /\ pc \in {"sized", "updated"}
  /\ gpuBuffer' = updateUniformBuffer(gpuBuffer, uniforms, uniformBufferSize)
  /\ updateAt' = IF uniformBufferSize = 0 THEN updateAt
                 ELSE UpdateOffsets(uniforms, uniformBufferSize)
  /\ pc' = "updated"
  /\ UNCHANGED <<uniforms, uniformBufferSize, calcAt, notLayout>>

NextLayout == CalculateSize \/ UpdateBuffer

SpecLayout == InitLayout /\ [][NextLayout]_vars

-----------------------------------------------------------------------------
(* SpecWrite: one writeUniformData call on a caller's Float32Array, which *)
(* is all zero or already holds a marker in every word                     *)
Marker == [enc |-> "f32", val |-> 99]

InitWrite ==
  /\ scratch \in {NewFloat32Array(ScratchWords), [i \in 1..ScratchWords |-> Marker]}
  /\ lastWrite = NoWrite
  /\ LayoutIdle /\ EmitterIdle /\ TargetIdle /\ ParserIdle /\ MaterialIdle

\* byte offsets of the words of the scratch array
WordOffsets == {4 * i : i \in 0..(ScratchWords - 1)}

WriteValue(offset, value) ==
  /\ lastWrite = NoWrite
  /\ LET w == writeUniformData(scratch, offset, value)
     IN /\ scratch' = w.data
        /\ lastWrite' = [offset |-> offset, value |-> value,
                         written |-> w.written, before |-> scratch]
  /\ UNCHANGED notWrite

NextWrite == \E offset \in WordOffsets, value \in Values : WriteValue(offset, value)

SpecWrite == InitWrite /\ [][NextWrite]_vars

-----------------------------------------------------------------------------
(* SpecEmitter: an emitter built with some options and listeners, then     *)
(* emit and clearHistory in any order                                      *)
InitEmitter ==
  /\ history = <<>>
  /\ historyIndex = 0
  /\ isHistoryFull = FALSE
  /\ options \in [types : TypesOptions, historySize : 0..MaxCapacity]
  /\ maxHistory = options.historySize
  /\ types = EventEmitter_types(options)
  /\ listeners \in [EventTypes -> {<<>>, <<"L1">>}]
  /\ allListeners \in {<<>>, <<"A1">>}
  /\ eventIdCounter = 0
  /\ recorded = <<>>
  /\ notified = <<>>
  /\ trace = <<>>
  /\ LayoutIdle /\ WriteIdle /\ TargetIdle /\ ParserIdle /\ MaterialIdle

\* emit(event), for an event of type t with a fresh id
Emit(t) ==
  /\ eventIdCounter < MaxEmits
  /\ eventIdCounter' = eventIdCounter + 1
  /\ LET event == [type |-> t, id |-> eventIdCounter + 1]
     IN IF Filtered(types, event)
        THEN /\ notified' = <<>>
             /\ UNCHANGED <<history, historyIndex, isHistoryFull, recorded>>
        ELSE /\ IF maxHistory > 0
                THEN LET r == RecordEvent(history, historyIndex, isHistoryFull,
                                          maxHistory, event)
                     IN /\ history' = r.history
                        /\ historyIndex' = r.historyIndex
                        /\ isHistoryFull' = r.isHistoryFull
                ELSE UNCHANGED <<history, historyIndex, isHistoryFull>>
             /\ recorded' = Append(recorded, event)
             /\ notified' = Dispatch(listeners, allListeners, event)
  /\ UNCHANGED <<maxHistory, types, listeners, allListeners, options, trace,
                 notEmitter>>

ClearHistory ==
  /\ history' = <<>>
  /\ historyIndex' = 0
  /\ isHistoryFull' = FALSE
  /\ recorded' = <<>>
  /\ UNCHANGED <<maxHistory, types, listeners, allListeners, eventIdCounter,
                 notified, options, trace, notEmitter>>

NextEmitter == (\E t \in EventTypes : Emit(t)) \/ ClearHistory

SpecEmitter == InitEmitter /\ [][NextEmitter]_vars

-----------------------------------------------------------------------------
(* SpecDispatch: listeners are subscribed with on, once and onAll, the     *)
(* functions once returned are called, and events are emitted; a listener  *)
(* may itself call emit. Here a registered listener is a record: fn is the *)
(* caller's function, once = 0 for the function itself and once = k for    *)
(* the k-th onceListener closure made by once().                            *)
ListenerFns == {"L", "R"}       \* functions subscribed to a type
AllFns == {"A"}                 \* functions subscribed to all events
SubscribedTypes == {"draw"}     \* types that on and once are called with

\* what the caller's function does with the event it is called with:
\* "R" emits a follow-up event of the same type, unless the event is itself
\* a follow-up; "L" and "A" emit nothing
Reemits(fn, event) == fn = "R" /\ ~event.nested

NoEntry == [fn |-> "", once |-> 0]
NoEvent == [type |-> "", id |-> 0, nested |-> FALSE]
Step(op, entry, event) == [op |-> op, entry |-> entry, event |-> event]

CountOps(tr, ops) == Cardinality({k \in DOMAIN tr : tr[k].op \in ops})

\* Set.add: insertion order, no duplicates
SetAdd(q, e) == IF \E k \in DOMAIN q : q[k] = e THEN q ELSE Append(q, e)

\* Set.delete
SetDelete(q, e) == SelectSeq(q, LAMBDA x : x # e)

\* off(type, listener)
off(st, type, entry) ==
  [st EXCEPT !.listeners[type] = SetDelete(@, entry)]

RECURSIVE emit(_, _)
RECURSIVE forEach(_, _, _, _)
RECURSIVE invoke(_, _, _)

\* a listener is called with an event: the caller's function runs, and a
\* onceListener then unsubscribes itself
invoke(st, entry, event) ==
  LET called == [st EXCEPT !.trace = Append(@, Step("call", entry, event))]
      ran == IF Reemits(entry.fn, event)
             THEN emit([called EXCEPT !.eventIdCounter = @ + 1],
                       [type |-> event.type, id |-> called.eventIdCounter + 1,
                        nested |-> TRUE])
             ELSE called
  IN IF entry.once > 0 THEN off(ran, event.type, entry) ELSE ran

\* Set.forEach over the listeners of the event's type (which = "type") or
\* the all-events listeners (which = "all"): insertion order, and an entry
\* deleted before its turn is not visited
forEach(st, which, event, visited) ==
  LET set == IF which = "all" THEN st.allListeners ELSE st.listeners[event.type]
      rest == SelectSeq(set, LAMBDA e : e \notin visited)
  IN IF rest = <<>> THEN st
     ELSE forEach(invoke(st, rest[1], event), which, event, visited \cup {rest[1]})

\* emit(event): the filter, the history, the listeners of the type, the
\* all-events listeners
emit(st, event) ==
  IF Filtered(types, event) THEN st
  ELSE LET r == IF maxHistory > 0
                THEN RecordEvent(st.history, st.historyIndex, st.isHistoryFull,
                                 maxHistory, event)
                ELSE [history |-> st.history, historyIndex |-> st.historyIndex,
                      isHistoryFull |-> st.isHistoryFull]
           kept == [st EXCEPT !.history = r.history,
                              !.historyIndex = r.historyIndex,
                              !.isHistoryFull = r.isHistoryFull,
                              !.recorded = Append(@, event),
                              !.trace = Append(@, Step("record", NoEntry, event))]
       IN forEach(forEach(kept, "type", event, {}), "all", event, {})

InitDispatch ==
  /\ history = <<>>
  /\ historyIndex = 0
  /\ isHistoryFull = FALSE
  /\ options = [types |-> TypesOmitted, historySize |-> MaxEmits]
  /\ maxHistory = options.historySize
  /\ types = EventEmitter_types(options)
  /\ listeners = [t \in EventTypes |-> <<>>]
  /\ allListeners = <<>>
  /\ eventIdCounter = 0
  /\ recorded = <<>>
  /\ notified = <<>>
  /\ trace = <<>>
  /\ LayoutIdle /\ WriteIdle /\ TargetIdle /\ ParserIdle /\ MaterialIdle

Registrations == {"on", "once", "onAll"}

\* on(type, fn)
On(type, fn) ==
  /\ CountOps(trace, Registrations) < MaxSubs
  /\ listeners' = [listeners EXCEPT ![type] = SetAdd(@, [fn |-> fn, once |-> 0])]
  /\ trace' = Append(trace, Step("on", [fn |-> fn, once |-> 0], NoEvent))
  /\ UNCHANGED <<history, historyIndex, isHistoryFull, maxHistory, types,
                 allListeners, eventIdCounter, recorded, notified, options,
                 notEmitter>>

\* once(type, fn): a new onceListener closure is subscribed
Once(type, fn) ==
  /\ CountOps(trace, Registrations) < MaxSubs
  /\ LET entry == [fn |-> fn, once |-> CountOps(trace, {"once"}) + 1]
     IN /\ listeners' = [listeners EXCEPT ![type] = SetAdd(@, entry)]
        /\ trace' = Append(trace, Step("once", entry, NoEvent))
  /\ UNCHANGED <<history, historyIndex, isHistoryFull, maxHistory, types,
                 allListeners, eventIdCounter, recorded, notified, options,
                 notEmitter>>

\* onAll(fn)
OnAll(fn) ==
  /\ CountOps(trace, Registrations) < MaxSubs
  /\ allListeners' = SetAdd(allListeners, [fn |-> fn, once |-> 0])
  /\ trace' = Append(trace, Step("onAll", [fn |-> fn, once |-> 0], NoEvent))
  /\ UNCHANGED <<history, historyIndex, isHistoryFull, maxHistory, types,
                 listeners, eventIdCounter, recorded, notified, options,
                 notEmitter>>

\* the caller calls the function once() returned for the k-th registration:
\* () => this.off(type, onceListener)
Unsubscribe(k) ==
  /\ k \in DOMAIN trace
  /\ trace[k].op = "once"
  /\ ~\E j \in DOMAIN trace : trace[j] = Step("cancel", trace[k].entry, NoEvent)
  /\ listeners' = [t \in EventTypes |-> SetDelete(listeners[t], trace[k].entry)]
  /\ trace' = Append(trace, Step("cancel", trace[k].entry, NoEvent))
  /\ UNCHANGED <<history, historyIndex, isHistoryFull, maxHistory, types,
                 allListeners, eventIdCounter, recorded, notified, options,
                 notEmitter>>

\* the emitter's state as one value, for emit to work on
EmitterState ==
  [history |-> history, historyIndex |-> historyIndex,
   isHistoryFull |-> isHistoryFull, listeners |-> listeners,
   allListeners |-> allListeners, eventIdCounter |-> eventIdCounter,
   recorded |-> recorded, trace |-> trace]

\* a caller emits a fresh event of type t; the step ends when emit returns,
\* with every emit the listeners made in between
EmitEvent(t) ==
  /\ CountOps(trace, {"emit"}) < MaxDispatches
  /\ LET event == [type |-> t, id |-> eventIdCounter + 1, nested |-> FALSE]
         entered == [EmitterState EXCEPT
                       !.eventIdCounter = @ + 1,
                       !.trace = Append(@, Step("emit", NoEntry, event))]
         done == emit(entered, event)
         calls == SelectSeq(SubSeq(done.trace, Len(trace) + 1, Len(done.trace)),
                            LAMBDA x : x.op = "call")
     IN /\ history' = done.history
        /\ historyIndex' = done.historyIndex
        /\ isHistoryFull' = done.isHistoryFull
        /\ listeners' = done.listeners
        /\ allListeners' = done.allListeners
        /\ eventIdCounter' = done.eventIdCounter
        /\ recorded' = done.recorded
        /\ trace' = done.trace
        /\ notified' = [k \in DOMAIN calls |-> calls[k].entry.fn]
  /\ UNCHANGED <<maxHistory, types, options, notEmitter>>

NextDispatch ==
  \/ \E t \in SubscribedTypes, fn \in ListenerFns : On(t, fn)
  \/ \E t \in SubscribedTypes, fn \in ListenerFns : Once(t, fn)
  \/ \E fn \in AllFns : OnAll(fn)
  \/ \E k \in DOMAIN trace : Unsubscribe(k)
  \/ \E t \in EventTypes : EmitEvent(t)

SpecDispatch == InitDispatch /\ [][NextDispatch]_vars

-----------------------------------------------------------------------------
(* SpecTarget: a render target is constructed, a holder takes its texture  *)
(* handle and makes views with it, the target is resized and disposed      *)
InitTarget ==
  /\ TargetIdle
  /\ LayoutIdle /\ WriteIdle /\ EmitterIdle /\ ParserIdle /\ MaterialIdle

\* new RenderTarget(device, width, height, {format, usage}, context?)
Construct(width, height, format, usage, context) ==
  /\ rt.state = "none"
  /\ LET r0 == [NoTarget EXCEPT !.state = "live", !.width = width, !.height = height,
                                !.format = format, !.usage = usage,
                                !.context = context]
         c == createTexture(r0, gpu, textureRefs)
         sm == createSampler(c.rt, c.gpu)
     IN /\ rt' = sm.rt
        /\ gpu' = sm.gpu
        /\ textureRefs' = c.refs
        /\ memEvents' = EmitMemory(sm.rt, "allocate")
  /\ UNCHANGED <<held, holderView, resizes, reads, notTarget>>

\* faulty variant: no early return for unchanged dimensions
Resize_always(width, height) ==
  /\ rt.state = "live"
  /\ resizes < MaxResizes
  /\ resizes' = resizes + 1
  /\ LET dev == DestroyTexture(gpu, rt.gpuTexture)
         c == createTexture([rt EXCEPT !.width = width, !.height = height],
                            dev, textureRefs)
     IN /\ rt' = c.rt
        /\ gpu' = c.gpu
        /\ textureRefs' = c.refs
        /\ memEvents' = EmitMemory(c.rt, "resize")
  /\ UNCHANGED <<held, holderView, reads, notTarget>>

\* resize(width, height)
Resize(width, height) ==
  /\ rt.state = "live"
  /\ resizes < MaxResizes
  /\ resizes' = resizes + 1
  /\ IF width = rt.width /\ height = rt.height
     THEN UNCHANGED <<rt, gpu, textureRefs, memEvents>>
     ELSE LET dev == DestroyTexture(gpu, rt.gpuTexture)
              c == createTexture([rt EXCEPT !.width = width, !.height = height],
                                 dev, textureRefs)
          IN /\ rt' = c.rt
             /\ gpu' = c.gpu
             /\ textureRefs' = c.refs
             /\ memEvents' = EmitMemory(c.rt, "resize")
  /\ UNCHANGED <<held, holderView, reads, notTarget>>

\* dispose()
Dispose ==
  /\ rt.state = "live"
  /\ memEvents' = EmitMemory(rt, "free")
  /\ gpu' = DestroyTexture(gpu, rt.gpuTexture)
  /\ rt' = [rt EXCEPT !.state = "disposed"]
  /\ UNCHANGED <<textureRefs, held, holderView, resizes, reads, notTarget>>

\* a holder reads target.texture and keeps the handle
TakeHandle ==
  /\ rt.state = "live"
  /\ held = 0
  /\ held' = rt.textureRef
  /\ UNCHANGED <<rt, gpu, textureRefs, memEvents, holderView, resizes, reads, notTarget>>

\* the holder calls held.createView(); holderView notes the texture the view
\* is of, and what was true of it when the view was made
HolderCreateView ==
  /\ held # 0
  /\ LET tex == TextureReference_texture(held)
     IN /\ gpu' = [gpu EXCEPT !.views = Append(@, [tex |-> tex])]
        /\ holderView' = [tex |-> tex, newest |-> Len(gpu.textures),
                          destroyed |-> gpu.textures[tex].destroyed,
                          state |-> rt.state]
  /\ holderView = NoView \/ holderView.tex # TextureReference_texture(held)
  /\ UNCHANGED <<rt, textureRefs, memEvents, held, resizes, reads, notTarget>>

NextTarget ==
  \/ \E w \in Sizes, h \in Sizes, f \in TextureFormats, u \in Usages, c \in BOOLEAN :
       Construct(w, h, f, u, c)
  \/ \E w \in Sizes, h \in Sizes : Resize(w, h)
  \/ Dispose
  \/ TakeHandle
  \/ HolderCreateView

SpecTarget == InitTarget /\ [][NextTarget]_vars

-----------------------------------------------------------------------------
(* SpecReadback: readPixels calls on a render target. readPixels is async: *)
(* it runs up to `await buffer.mapAsync(...)`, and resumes when the map    *)
(* promise resolves. The staging buffer is local to the call, so nothing   *)
(* else can map, unmap or destroy it while the call is suspended.          *)
ReadWidths == {1, 64, 65}       \* widths of targets and of regions read back
ReadHeights == {1, 2}           \* heights of targets and of regions read back
Origins == {0, 1}               \* x of the regions read back

\* the bytesPerPixel chain at the head of readPixels
readPixels_bytesPerPixel(format) ==
  IF format = "rgba8unorm" THEN 4
  ELSE IF format = "r16float" THEN 2
  ELSE IF format = "rg16float" THEN 4
  ELSE IF format = "rgba16float" THEN 8
  ELSE IF format = "r32float" THEN 4
  ELSE 4

\* faulty variant: rows are not padded
readPixels_bytesPerRow_unpadded(width, bpp) == width * bpp

\* Math.ceil((width * bytesPerPixel) / 256) * 256
readPixels_bytesPerRow(width, bpp) == CeilDiv(width * bpp, 256) * 256

\* readPixels up to its await: the staging buffer, the copy and the submit
readPixels_start(r, x, y, width, height) ==
  LET bpr == readPixels_bytesPerRow(width, readPixels_bytesPerPixel(r.format))
  IN [size |-> bpr * height,
      usage |-> {"COPY_DST", "MAP_READ"},
      copy |-> [texture |-> r.gpuTexture, x |-> x, y |-> y, z |-> 0,
                bytesPerRow |-> bpr, width |-> width, height |-> height,
                depthOrArrayLayers |-> 1],
      log |-> <<"createBuffer", "copyTextureToBuffer", "submit", "mapAsync">>,
      mapState |-> "pending",
      destroyed |-> FALSE,
      result |-> "pending",
      length |-> 0]

\* faulty variant: the staging buffer is left alive
readPixels_resume_noDestroy(call, format) ==
  LET isFloat == format # "rgba8unorm"
  IN [call EXCEPT !.log = @ \o <<"getMappedRange", "slice", "unmap">>,
                  !.mapState = "unmapped",
                  !.result = IF isFloat THEN "Float32Array" ELSE "Uint8Array",
                  !.length = IF isFloat THEN call.size \div 4 ELSE call.size]

\* readPixels after its await: getMappedRange, the copy out, unmap, destroy
readPixels_resume(call, format) ==
  LET isFloat == format # "rgba8unorm"
  IN [call EXCEPT !.log = @ \o <<"getMappedRange", "slice", "unmap", "destroy">>,
                  !.mapState = "unmapped",
                  !.destroyed = TRUE,
                  !.result = IF isFloat THEN "Float32Array" ELSE "Uint8Array",
                  !.length = IF isFloat THEN call.size \div 4 ELSE call.size]

\* readPixels(x, y, width, height), up to the await
ReadPixels(x, y, width, height) ==
  /\ rt.state # "none"
  /\ Len(reads) < MaxReads
  /\ reads' = Append(reads, readPixels_start(rt, x, y, width, height))
  /\ UNCHANGED <<rt, gpu, textureRefs, memEvents, held, holderView, resizes, notTarget>>

\* the map promise of call i resolves and the call runs to its return
MapResolves(i) ==
  /\ i \in 1..Len(reads)
  /\ reads[i].result = "pending"
  /\ reads' = [reads EXCEPT ![i] = readPixels_resume(@, rt.format)]
  /\ UNCHANGED <<rt, gpu, textureRefs, memEvents, held, holderView, resizes, notTarget>>

NextReadback ==
  \/ \E w \in ReadWidths, h \in ReadHeights, f \in TextureFormats :
       Construct(w, h, f, "render", FALSE)
  \/ \E x \in Origins, w \in ReadWidths, h \in ReadHeights :
       /\ x + w <= rt.width
       /\ h <= rt.height
       /\ ReadPixels(x, 0, w, h)
  \/ \E i \in 1..MaxReads : MapResolves(i)

SpecReadback == InitTarget /\ [][NextReadback]_vars

-----------------------------------------------------------------------------
(* SpecBindings: the binding plan of a shader source is resolved *)
InitBindings ==
  /\ wgsl \in Sources
  /\ bindings = EmptyBindings
  /\ parsed = FALSE
  /\ LayoutIdle /\ WriteIdle /\ EmitterIdle /\ TargetIdle /\ MaterialIdle

\* const bindings = parseBindGroup1Bindings(this.wgsl)
ResolveBindings ==
  /\ bindings' = parseBindGroup1Bindings(wgsl)
  /\ parsed' = TRUE
  /\ UNCHANGED <<wgsl, notParser>>

NextBindings == ResolveBindings

SpecBindings == InitBindings /\ [][NextBindings]_vars

-----------------------------------------------------------------------------
(* The materials tried: a source is a choice among a list of group-1       *)
(* declarations, numbered @binding(0), @binding(1), ... in text order.     *)
Template(m, n, t) == [modifier |-> m, name |-> n, type |-> t]
DeclListA ==
  <<Template("uniform", "u", <<"Params">>),
    Template(NoModifier, "imgTex", <<"texture_", "2d<f32>">>),
    Template(NoModifier, "imgTexSampler", <<"sampler">>),
    Template(NoModifier, "imgTex_sampler", <<"sampler">>),
    Template(NoModifier, "imgSampler", <<"sampler">>),
    Template("storage", "a", <<"array<", "f32>">>)>>
DeclListB ==
  <<Template(NoModifier, "img", <<"texture_", "2d<f32>">>),
    Template(NoModifier, "imgSampler", <<"sampler">>),
    Template(NoModifier, "img_sampler", <<"sampler">>),
    Template(NoModifier, "Sampler", <<"sampler">>)>>
\* two textures and the one sampler both naming chains reach
DeclListC ==
  <<Template(NoModifier, "img", <<"texture_", "2d<f32>">>),
    Template(NoModifier, "imgTex", <<"texture_", "2d<f32>">>),
    Template(NoModifier, "imgSampler", <<"sampler">>)>>

RECURSIVE Subsequence(_, _, _)
Subsequence(list, chosen, i) ==
  IF i > Len(list) THEN <<>>
  ELSE (IF i \in chosen THEN <<list[i]>> ELSE <<>>) \o Subsequence(list, chosen, i + 1)
Numbered(ts) ==
  [i \in DOMAIN ts |-> Decl(1, i - 1, ts[i].modifier, ts[i].name, ts[i].type)]
MaterialSources ==
  {Numbered(Subsequence(DeclListA, c, 1)) : c \in SUBSET DOMAIN DeclListA}
    \cup {Numbered(Subsequence(DeclListB, c, 1)) : c \in SUBSET DOMAIN DeclListB}
    \cup {Numbered(DeclListC)}

\* options.uniforms: an optional scalar, then texture-valued uniforms
TextureKeys == {"img", "imgTex"}
TextureValues == {Obj({"createView"}), Obj({"texture"}), Obj({"texture", "sampler"})}
Named(k, v) == [key |-> k, value |-> v]
MaterialUniforms ==
  LET scalars == {<<>>, <<Named("k", Num(7))>>}
      texs == {<<>>}
                \cup {<<Named(k, v)>> : k \in TextureKeys, v \in TextureValues}
                \cup {<<Named("imgTex", Obj({"texture", "sampler"})),
                        Named("img", Obj({"texture", "sampler"}))>>}
  IN {s \o t : s \in scalars, t \in texs}

\* the state the Material constructor leaves
Constructed(src, d, info) ==
  /\ wgsl = src
  /\ keys = [i \in DOMAIN d |-> d[i].key]
  /\ uniforms = [i \in DOMAIN d |-> d[i].value]
  /\ uniformBufferSize = calculateUniformBufferSize(uniforms)
  /\ calcAt = CalcOffsets(uniforms)
  /\ pc = "sized"
  /\ gpuBuffer = <<>>
  /\ updateAt = <<>>
  /\ bindings = EmptyBindings
  /\ parsed = FALSE
  /\ compilationInfo = info
  /\ pipelines = NoPipelines
  /\ storageBuffers = <<>>
  /\ shaderModules = <<>>
  /\ renderPipelines = <<>>
  /\ unhandled = <<>>
  /\ pass = <<>>
  /\ warnings = <<>>
  /\ scans = 0
  /\ draws = 0
  /\ drawnFormat = ""
  /\ WriteIdle /\ EmitterIdle /\ TargetIdle

\* drawInternal(commandEncoder, renderPassDescriptor, format)
DrawInternal(format) ==
  /\ draws < MaxDraws
  /\ LET gp == getPipeline(pipelines, shaderModules, renderPipelines, wgsl,
                           compilationInfo, format)
         hasBuffer == uniformBufferSize > 0      \* this.uniformBuffer is set
         b == parseBindGroup1Bindings(wgsl)
         asm == AssembleGroup1(b, hasBuffer, collectTextureBindings(keys, uniforms),
                               storageBuffers)
     IN /\ pipelines' = gp.pipelines
        /\ shaderModules' = gp.shaderModules
        /\ renderPipelines' = gp.renderPipelines
        /\ gpuBuffer' = IF hasBuffer
                        THEN updateUniformBuffer(gpuBuffer, uniforms, uniformBufferSize)
                        ELSE gpuBuffer
        /\ updateAt' = IF hasBuffer THEN UpdateOffsets(uniforms, uniformBufferSize)
                       ELSE updateAt
        /\ bindings' = b
        /\ parsed' = TRUE
        /\ scans' = scans + 1
        /\ pass' = PassCommands(gp.pipeline, asm.entries)
        /\ warnings' = asm.warnings
  /\ draws' = draws + 1
  /\ drawnFormat' = format
  /\ UNCHANGED <<uniforms, pc, uniformBufferSize, calcAt, wgsl, keys, compilationInfo,
                 storageBuffers, unhandled, notMaterial>>

\* storage(name, buffer)
Storage(name, buffer) ==
  /\ storageBuffers' = MapSet(storageBuffers, name, buffer)
  /\ pipelines' = NoPipelines
  /\ UNCHANGED <<layoutVars, parserVars, keys, compilationInfo, shaderModules,
                 renderPipelines, unhandled, pass, warnings, scans, draws, drawnFormat,
                 notMaterial>>

\* faulty variant: an error diagnostic evicts the module's pipelines
CompilationInfoResolves_evict(m) ==
  /\ m \in DOMAIN shaderModules
  /\ shaderModules[m].derived = "pending"
  /\ LET r == CompilationInfoCallback(shaderModules[m])
     IN /\ shaderModules' = [shaderModules EXCEPT ![m].derived = r.derived,
                                                  ![m].reason = r.reason]
        /\ unhandled' = IF r.derived = "rejected" THEN Append(unhandled, r.reason)
                        ELSE unhandled
        /\ pipelines' = [f \in PipelineFormats |->
                           IF r.derived = "rejected" /\ pipelines[f] # 0
                              /\ renderPipelines[pipelines[f]].module = m
                           THEN 0 ELSE pipelines[f]]
  /\ UNCHANGED <<layoutVars, parserVars, keys, compilationInfo, storageBuffers,
                 renderPipelines, pass, warnings, scans, draws, drawnFormat,
                 notMaterial>>

\* the promise of getCompilationInfo() of module m resolves and the callback
\* runs; a throw in it rejects the derived promise, which has no handler
CompilationInfoResolves(m) ==
  /\ m \in DOMAIN shaderModules
  /\ shaderModules[m].derived = "pending"
  /\ LET r == CompilationInfoCallback(shaderModules[m])
     IN /\ shaderModules' = [shaderModules EXCEPT ![m].derived = r.derived,
                                                  ![m].reason = r.reason]
        /\ unhandled' = IF r.derived = "rejected" THEN Append(unhandled, r.reason)
                        ELSE unhandled
  /\ UNCHANGED <<layoutVars, parserVars, keys, compilationInfo, pipelines,
                 storageBuffers, renderPipelines, pass, warnings, scans, draws,
                 drawnFormat, notMaterial>>

-----------------------------------------------------------------------------
(* SpecPipeline: one material is drawn to targets of two formats, storage  *)
(* buffers are bound to it, and the compile diagnostics arrive later       *)
InitPipeline ==
  \E src \in {<<>>, ParamsExample}, d \in {<<>>, <<Named("k", Num(7))>>},
     info \in CompilationInfos :
    Constructed(src, d, info)

NextPipeline ==
  \/ \E f \in PipelineFormats : DrawInternal(f)
  \/ \E n \in StorageNames, id \in StorageBufferIds : Storage(n, id)
  \/ \E m \in 1..MaxDraws : CompilationInfoResolves(m)

SpecPipeline == InitPipeline /\ [][NextPipeline]_vars

-----------------------------------------------------------------------------
(* SpecDraw: materials over every source and descriptor tried are drawn    *)
InitDraw ==
  \E src \in MaterialSources, d \in MaterialUniforms : Constructed(src, d, <<>>)

NextDraw ==
  \/ DrawInternal("bgra8unorm")
  \/ Storage("a", 1)
  \/ \E m \in 1..MaxDraws : CompilationInfoResolves(m)

SpecDraw == InitDraw /\ [][NextDraw]_vars

-----------------------------------------------------------------------------
(* The claims' own vocabulary: the shape of a value and the fixed          *)
(* size/alignment table of the layout rules, independent of the code.      *)
Shape(v) ==
  CASE v.kind = "number" -> "scalar"
    [] v.kind = "boolean" -> "bool"
    [] v.kind = "array" /\ Len(v.elems) = 2 -> "vec2"
    [] v.kind = "array" /\ Len(v.elems) = 3 -> "vec3"
    [] v.kind = "array" /\ Len(v.elems) = 4 -> "vec4"
    [] v.kind = "array" /\ Len(v.elems) = 9 -> "mat3"
    [] v.kind = "array" /\ Len(v.elems) = 16 -> "mat4"
    [] OTHER -> "other"

TableSize ==
  [scalar |-> 4, bool |-> 4, vec2 |-> 8, vec3 |-> 12, vec4 |-> 16,
   mat3 |-> 48, mat4 |-> 64, other |-> 0]
TableAlign ==
  [scalar |-> 4, bool |-> 4, vec2 |-> 8, vec3 |-> 16, vec4 |-> 16,
   mat3 |-> 16, mat4 |-> 16, other |-> 1]

Recognized(v) == Shape(v) # "other"
TextureLike(v) == v.kind = "object" /\ v.props \cap {"createView", "texture"} # {}

RoundUp(x, a) == IF x % a = 0 THEN x ELSE x + (a - (x % a))

\* the reference walk, front to back: the offset after the entries of us
\* when the walk starts at offset
RECURSIVE RefEnd(_, _)
RefEnd(us, offset) ==
  IF us = <<>> THEN offset
  ELSE IF Recognized(Head(us))
    THEN RefEnd(Tail(us),
                RoundUp(offset, TableAlign[Shape(Head(us))]) + TableSize[Shape(Head(us))])
    ELSE RefEnd(Tail(us), offset)
RefSize(us) == RoundUp(RefEnd(us, 0), 16)

Sized == pc \in {"sized", "updated"}
Updated == pc = "updated" /\ uniformBufferSize > 0
Entries == 1..Len(uniforms)
Placed(at, i) == i \in DOMAIN at /\ at[i] # NoOffset

\* C3: after updateBuffer ran with totalSize = calculateBufferSize(d), every
\* entry was written at the offset the size walk gave it.
C3_UpdateOffsetsEqualCalcOffsets ==
  Updated => updateAt = calcAt

\* the call had room for the value in the buffer
Fits(w) == w.offset + getUniformSize(w.value) <= 4 * ScratchWords
\* the cell that holds component k of a stored value
StoredCell(v, k) ==
  IF v.kind = "number" THEN F32(v.val)
  ELSE IF v.kind = "boolean" THEN U32(v.val)
  ELSE F32(v.elems[k])
ComponentCount(v) == IF v.kind = "array" THEN Len(v.elems) ELSE 1
\* C4: a write of a value of a recognized shape (number, boolean, array of
\* length 2, 3, 4, 9 or 16) that fits the buffer returns a number of bytes
\* greater than zero and stores the value at the byte offset: a number as
\* one float, a boolean as unsigned 0/1, a vector as its components in
\* consecutive floats (and then returns 4 bytes per component and leaves
\* every other word as it was); a matrix starts with its first component.
C4_WriteStoresValueAndReturnsBytes ==
  (lastWrite # NoWrite /\ Recognized(lastWrite.value) /\ Fits(lastWrite)) =>
    LET w == lastWrite
        first == w.offset \div 4 + 1
        n == ComponentCount(w.value)
    IN /\ w.written > 0
       /\ scratch[first] = StoredCell(w.value, 1)
       /\ n <= 4 =>
            /\ w.written = 4 * n
            /\ \A k \in 1..n : scratch[first + k - 1] = StoredCell(w.value, k)
            /\ \A j \in DOMAIN scratch :
                 (j < first \/ j >= first + n) => scratch[j] = w.before[j]

\* C5: every entry that received an offset, in the size walk and in the
\* update walk, sits at a multiple of its alignment (4 scalar/bool,
\* 8 for 2-vectors, 16 for 3-vectors, 4-vectors and matrices).
C5_OffsetsAligned ==
  /\ Sized => \A i \in Entries :
       Placed(calcAt, i) => calcAt[i] % TableAlign[Shape(uniforms[i])] = 0
  /\ Updated => \A i \in Entries :
       Placed(updateAt, i) => updateAt[i] % TableAlign[Shape(uniforms[i])] = 0
C5_Witness ==
  /\ Updated
  /\ uniforms = <<Num(7), Arr(Iota(3)), Arr(Iota(2))>>
  /\ calcAt = <<0, 16, 32>>
  /\ updateAt = <<0, 16, 32>>

\* C6: the computed buffer size is a multiple of 16, and 0 for the empty
\* descriptor and for a descriptor with no recognized value.
C6_SizeMultipleOf16 ==
  Sized => /\ uniformBufferSize % 16 = 0
           /\ (\A i \in Entries : ~Recognized(uniforms[i])) => uniformBufferSize = 0
C6_Witness ==
  /\ Sized
  /\ uniforms = <<Arr(Iota(5)), Num(7), Obj({"createView"})>>
  /\ uniformBufferSize = 16

\* C7: the computed buffer size equals the reference walk over the fixed
\* size/alignment table, and {scalar, scalar, 3-vector} gives 32.
C7_SizeEqualsReferenceWalk ==
  Sized => /\ uniformBufferSize = RefSize(uniforms)
           /\ (uniforms = Wave => uniformBufferSize = 32)
C7_Witness ==
  Sized /\ uniforms = Wave /\ uniformBufferSize = 32 /\ calcAt = <<0, 4, 16>>

Overlaps(lo1, hi1, lo2, hi2) == lo1 < hi2 /\ lo2 < hi1
EntryEnd(at, i) == at[i] + TableSize[Shape(uniforms[i])]
\* C8 as stated: no entry declared after a 3-vector at offset o occupies any
\* of the bytes o+12 .. o+15.
C8_HoleNeverOccupied ==
  Sized => \A i, j \in Entries :
    (i < j /\ Shape(uniforms[i]) = "vec3" /\ Placed(calcAt, i) /\ Placed(calcAt, j)) =>
      ~Overlaps(calcAt[j], EntryEnd(calcAt, j), calcAt[i] + 12, calcAt[i] + 16)

HoleRule(at) ==
  \A i, j \in Entries :
    (i < j /\ Shape(uniforms[i]) = "vec3" /\ Placed(at, i) /\ Placed(at, j)) =>
      /\ at[j] >= at[i] + 12
      /\ at[j] < at[i] + 16 =>
           /\ Shape(uniforms[j]) \in {"scalar", "bool"}
           /\ at[j] = at[i] + 12
\* C8 amended: no entry declared after a 3-vector at offset o occupies any of
\* the 3-vector's bytes o .. o+11, and the bytes o+12 .. o+15 are occupied
\* only by a 4-byte scalar or boolean placed at o+12; an entry of alignment
\* 8 or 16 starts at o+16 or later.  In both walks.
C8_HoleOnlyTakenByScalar ==
  /\ Sized => HoleRule(calcAt)
  /\ Updated => HoleRule(updateAt)
C8_Witness ==
  /\ Updated
  /\ uniforms = <<Arr(Iota(3)), Num(7), Arr(Iota(2))>>
  /\ calcAt = <<0, 12, 16>>
  /\ updateAt = <<0, 12, 16>>

Contributes(v) == Recognized(v) /\ ~TextureLike(v)
Kept(us) == SelectSeq(us, Contributes)
\* the offsets of the entries that contribute, in order
KeptOffsets(at) ==
  LET RECURSIVE Pick(_)
      Pick(n) == IF n = 0 THEN <<>>
                 ELSE IF Contributes(uniforms[n]) THEN Append(Pick(n - 1), at[n])
                 ELSE Pick(n - 1)
  IN Pick(Len(at))
\* C9: texture-like entries and entries of an unrecognized shape contribute
\* no bytes and no padding: the size equals the size of the descriptor with
\* those entries removed, and the other entries keep their offsets.
C9_SkippedEntriesContributeNothing ==
  /\ Sized =>
       /\ uniformBufferSize = calculateUniformBufferSize(Kept(uniforms))
       /\ KeptOffsets(calcAt) = CalcOffsets(Kept(uniforms))
       /\ \A i \in Entries : ~Contributes(uniforms[i]) => calcAt[i] = NoOffset
  /\ Updated =>
       /\ KeptOffsets(updateAt) = UpdateOffsets(Kept(uniforms), uniformBufferSize)
       /\ gpuBuffer = updateUniformBuffer(<<>>, Kept(uniforms), uniformBufferSize)
       /\ \A i \in Entries : ~Contributes(uniforms[i]) => updateAt[i] = NoOffset
C9_Witness ==
  /\ Updated
  /\ uniforms = <<Num(7), Arr(Iota(5)), Arr(Iota(2))>>
  /\ calcAt = <<0, NoOffset, 8>>
  /\ updateAt = <<0, NoOffset, 8>>
  /\ uniformBufferSize = 16

Min(a, b) == IF a < b THEN a ELSE b
LastN(q, k) == SubSeq(q, Len(q) - k + 1, Len(q))
\* C2: getHistory() is exactly the last min(n, C) events recorded since the
\* last clearHistory, oldest first (n recorded since then, C the capacity).
C2_HistoryIsLastRecorded ==
  getHistory(history, historyIndex, isHistoryFull, <<>>)
    = LastN(recorded, Min(Len(recorded), maxHistory))
C2_Witness ==
  /\ maxHistory = 2
  /\ Len(recorded) = 3
  /\ historyIndex = 1
  /\ isHistoryFull
  /\ getHistory(history, historyIndex, isHistoryFull, <<>>)
       = <<recorded[2], recorded[3]>>
  /\ recorded[1].id > 1        \* a clearHistory came before

\* C1: the TextureReference a holder took from `texture` is the object the
\* getter still returns after any resizes, and the GPU texture it exposes,
\* and every view made through it, is the texture made by the last
\* dimension-changing resize, never a destroyed one.
C1_HandleStableAndCurrent ==
  /\ (held # 0 /\ rt.state = "live") =>
       /\ held = rt.textureRef
       /\ TextureReference_texture(held) = rt.gpuTexture
       /\ TextureReference_texture(held) = Len(gpu.textures)
       /\ ~gpu.textures[TextureReference_texture(held)].destroyed
  /\ (holderView # NoView /\ holderView.state = "live") =>
       /\ holderView.tex = holderView.newest
       /\ ~holderView.destroyed
C1_Witness ==
  /\ rt.state = "live"
  /\ held # 0
  /\ holderView.tex = 2 /\ holderView.state = "live"
  /\ Len(gpu.textures) = 3
  /\ TextureReference_texture(held) = 3
  /\ gpu.textures[1].destroyed /\ gpu.textures[2].destroyed

\* the category the priority rule gives a declaration
Contains(type, marker) == marker \in {type[i] : i \in DOMAIN type}
Category(decl) ==
  CASE decl.modifier = "uniform" -> "uniform"
    [] decl.modifier # "uniform"
         /\ (decl.modifier = "storage" \/ Contains(decl.type, "array<")) -> "storage"
    [] decl.modifier \notin {"uniform", "storage"} /\ ~Contains(decl.type, "array<")
         /\ Contains(decl.type, "texture_") -> "texture"
    [] decl.modifier \notin {"uniform", "storage"} /\ ~Contains(decl.type, "array<")
         /\ ~Contains(decl.type, "texture_") /\ Contains(decl.type, "sampler") -> "sampler"
    [] OTHER -> "none"
\* the declarations of group 1 of a category (and name), by position
Matched(cat, names) ==
  {i \in DOMAIN wgsl : wgsl[i].group = 1 /\ Category(wgsl[i]) = cat /\ wgsl[i].name \in names}
LastSlot(idx) ==
  IF idx = {} THEN NoSlot ELSE wgsl[CHOOSE i \in idx : \A j \in idx : j <= i].binding
\* C10: every matched group-1 declaration is classified into at most one
\* category, by priority: qualifier uniform -> the uniform-buffer slot;
\* else qualifier storage or a type containing `array<` -> the storage map;
\* else a type containing `texture_` -> the texture map; else a type
\* containing `sampler` -> the sampler map; else it is recorded nowhere.
\* The plan holds, per category and name, the slot of the last declaration
\* of that category and name, and nothing else.
C10_ClassifiedByPriority ==
  parsed =>
    /\ bindings.uniformBuffer = LastSlot(Matched("uniform", Identifiers))
    /\ \A n \in Identifiers :
         /\ bindings.storage[n] = LastSlot(Matched("storage", {n}))
         /\ bindings.textures[n] = LastSlot(Matched("texture", {n}))
         /\ bindings.samplers[n] = LastSlot(Matched("sampler", {n}))
C10_Witness ==
  /\ parsed
  /\ wgsl = <<Decl(1, 0, NoModifier, "a", <<"texture_", "2d_", "array<", "f32>">>),
              Decl(1, 1, NoModifier, "b", <<"texture_", "and_", "sampler", "_t">>)>>
  /\ bindings.storage["a"] = 0
  /\ bindings.textures["b"] = 1
  /\ bindings.textures["a"] = NoSlot
  /\ bindings.samplers["b"] = NoSlot

\* the declarations of group 1, in text order
IsGroup1(decl) == decl.group = 1
\* C11: the plan holds only declarations of group 1: every slot in it is the
\* binding number of a group-1 declaration (of that name, for a map entry),
\* the declarations of other groups can be deleted from the source without
\* changing the plan, and `@group(1) @binding(0) var<uniform> u: Params;`
\* alone yields uniform slot 0 and empty texture, sampler and storage maps.
C11_OnlyGroup1 ==
  parsed =>
    /\ bindings.uniformBuffer # NoSlot =>
         \E i \in DOMAIN wgsl :
           wgsl[i].group = 1 /\ wgsl[i].binding = bindings.uniformBuffer
    /\ \A n \in Identifiers, kind \in {"textures", "samplers", "storage"} :
         bindings[kind][n] # NoSlot =>
           \E i \in DOMAIN wgsl :
             /\ wgsl[i].group = 1
             /\ wgsl[i].name = n
             /\ wgsl[i].binding = bindings[kind][n]
    /\ bindings = parseBindGroup1Bindings(SelectSeq(wgsl, IsGroup1))
    /\ (\A i \in DOMAIN wgsl : wgsl[i].group # 1) => bindings = EmptyBindings
    /\ wgsl = ParamsExample =>
         bindings = [EmptyBindings EXCEPT !.uniformBuffer = 0]
C11_Witness ==
  /\ parsed
  /\ \E i, j \in DOMAIN wgsl :
       /\ wgsl[i].group = 0 /\ wgsl[i].modifier = "uniform"
       /\ wgsl[j].group = 1 /\ wgsl[j].modifier = NoModifier
            /\ wgsl[j].binding = 1 /\ wgsl[j].name = "a"
  /\ bindings.uniformBuffer = NoSlot
  /\ bindings.textures["a"] = 1

\* C12: the binding plan is built once per shader source and cached: over
\* all the draws of one material the resolver scans the source at most once.
C12_SourceScannedAtMostOnce == scans <= 1

\* what a step is: a draw calls getPipeline(drawnFormat'); a step that is
\* neither a draw nor the arrival of diagnostics is a storage() call
IsDraw == draws' = draws + 1
IsDiagnostics == draws' = draws /\ shaderModules' # shaderModules
\* the pipeline the draw set on its pass
PassPipeline(p) == p[1].pipeline
\* C13: getPipeline(format) compiles only when the cache has no pipeline for
\* that exact format (one more shader module and pipeline, cached under the
\* format) and otherwise returns the cached pipeline object and compiles
\* nothing; a cached pipeline was built for the format it is cached under,
\* two formats never share a pipeline, and only storage() removes entries,
\* all of them.
C13_PipelineCache ==
  /\ [](\A f \in PipelineFormats :
          pipelines[f] # 0 =>
            /\ pipelines[f] \in DOMAIN renderPipelines
            /\ renderPipelines[pipelines[f]].format = f
            /\ \A g \in PipelineFormats \ {f} : pipelines[g] # pipelines[f])
  /\ [][/\ IsDraw =>
            IF pipelines[drawnFormat'] # 0
            THEN /\ PassPipeline(pass') = pipelines[drawnFormat']
                 /\ pipelines' = pipelines
                 /\ Len(shaderModules') = Len(shaderModules)
                 /\ renderPipelines' = renderPipelines
            ELSE /\ Len(shaderModules') = Len(shaderModules) + 1
                 /\ Len(renderPipelines') = Len(renderPipelines) + 1
                 /\ PassPipeline(pass') = Len(renderPipelines')
                 /\ pipelines' = [pipelines EXCEPT ![drawnFormat'] = Len(renderPipelines')]
        /\ (\E f \in PipelineFormats : pipelines[f] # 0 /\ pipelines'[f] # pipelines[f]) =>
            /\ ~IsDraw /\ ~IsDiagnostics
            /\ pipelines' = NoPipelines]_vars
\* the second draw found its format cached and compiled nothing, and a
\* storage() call then emptied the cache
C13_Witness ==
  /\ draws = 2
  /\ Len(renderPipelines) = 1
  /\ pass # <<>> /\ PassPipeline(pass) = 1
  /\ storageBuffers # <<>>
  /\ pipelines = NoPipelines

\* the promise derived for a module was rejected with an error
Rejected(m) == shaderModules[m].derived = "rejected"
\* C14: when the diagnostics of a pipeline hold a message of severity error,
\* a ShaderCompileError with that message, its line, its column and the
\* whole concatenated source reaches the caller: once the diagnostics have
\* arrived, the error is not left as a rejection that nobody handles.
C14_ErrorSurfacedToCaller ==
  \A m \in DOMAIN shaderModules :
    (FirstError(shaderModules[m].messages) # 0 /\ shaderModules[m].derived # "pending") =>
      /\ Rejected(m)
      /\ shaderModules[m].reason =
           ShaderCompileError(
             shaderModules[m].messages[FirstError(shaderModules[m].messages)].message,
             shaderModules[m].messages[FirstError(shaderModules[m].messages)].lineNum,
             shaderModules[m].messages[FirstError(shaderModules[m].messages)].linePos,
             GlobalsWGSL \o wgsl)
      /\ \A i \in DOMAIN unhandled : unhandled[i] # shaderModules[m].reason

\* the pass issued its draw call
Drew(p) == \E i \in DOMAIN p : p[i].op = "draw"
\* the shader module a cached pipeline was built from
ModuleOf(rps, p) == rps[p].module
\* C15: a draw that has to compile gets the pipeline, cached and set on its
\* pass, while the diagnostics of the new module are still pending; the
\* arrival of diagnostics, error or not, changes neither the cache nor the
\* pipelines; and a draw whose format is cached uses the cached pipeline and
\* issues its draw call whatever the diagnostics of its module were.
C15_UsableBeforeDiagnostics ==
  [][/\ (IsDraw /\ pipelines[drawnFormat'] = 0) =>
          /\ pipelines'[drawnFormat'] # 0
          /\ PassPipeline(pass') = pipelines'[drawnFormat']
          /\ Drew(pass')
          /\ shaderModules'[ModuleOf(renderPipelines', pipelines'[drawnFormat'])].derived
               = "pending"
     /\ IsDiagnostics =>
          /\ pipelines' = pipelines
          /\ renderPipelines' = renderPipelines
          /\ pass' = pass
     /\ (IsDraw /\ pipelines[drawnFormat'] # 0) =>
          /\ PassPipeline(pass') = pipelines[drawnFormat']
          /\ Drew(pass')]_vars
\* the error of the only module has arrived, unhandled, and the pipeline built
\* from it is still cached and was set on the pass of the second draw
C15_Witness ==
  /\ draws = 2
  /\ Len(shaderModules) = 1
  /\ Rejected(1)
  /\ unhandled # <<>>
  /\ pipelines[drawnFormat] = 1
  /\ PassPipeline(pass) = 1
  /\ Drew(pass)

\* the positions of the pass commands that set bind group g
GroupSet(p, g) == {i \in DOMAIN p : p[i].op = "setBindGroup" /\ p[i].index = g}
DrawAt(p) == {i \in DOMAIN p : p[i].op = "draw"}
\* bind group g was set before the draw call
SetBeforeDraw(p, g) == \E i \in GroupSet(p, g), d \in DrawAt(p) : i < d
\* the uniforms that are textures or carry one
TextureUniforms == {i \in DOMAIN uniforms : TextureLike(uniforms[i])}
\* some user resource of the material has a slot in the plan b
HasGroup1Resource(b) ==
  \/ uniformBufferSize > 0 /\ b.uniformBuffer # NoSlot
  \/ \E i \in TextureUniforms : b.textures[keys[i]] # NoSlot
  \/ \E i \in DOMAIN storageBuffers : b.storage[storageBuffers[i].name] # NoSlot
\* C16 as stated: on every draw both bind groups are set on the pass before
\* the draw call, group 0 with the global-uniform buffer at binding 0 and
\* group 1 from the user resources, whatever the material.
C16_TwoBindGroupsEveryDraw ==
  pass # <<>> =>
    /\ SetBeforeDraw(pass, 0)
    /\ \A i \in GroupSet(pass, 0) : pass[i].entries = <<Entry(0, "globalsBuffer", "")>>
    /\ SetBeforeDraw(pass, 1)
\* C16: on every draw group 0, with the global-uniform buffer at binding 0, is
\* set before the draw call; group 1 is set before the draw call exactly when
\* some user resource has a discovered slot, with a non-empty entry list, and
\* otherwise the draw call is issued with group 0 only.
C16_Group1OnlyWithEntries ==
  [][IsDraw =>
       /\ SetBeforeDraw(pass', 0)
       /\ \A i \in GroupSet(pass', 0) : pass'[i].entries = <<Entry(0, "globalsBuffer", "")>>
       /\ Drew(pass')
       /\ SetBeforeDraw(pass', 1) <=> HasGroup1Resource(bindings')
       /\ \A i \in GroupSet(pass', 1) : pass'[i].entries # <<>>
       /\ ~HasGroup1Resource(bindings') => GroupSet(pass', 1) = {}]_vars
\* a material without uniforms over a shader that declares a uniform buffer
\* was drawn: the pass has group 0 and the draw call, and no group 1
C16_Witness ==
  /\ draws > 0
  /\ uniforms = <<>>
  /\ bindings.uniformBuffer = 0
  /\ GroupSet(pass, 0) # {}
  /\ GroupSet(pass, 1) = {}
  /\ Drew(pass)

\* the entries of the group-1 bind group of a pass (none if it set none)
Group1Entries(p) ==
  IF GroupSet(p, 1) = {} THEN <<>> ELSE p[CHOOSE i \in GroupSet(p, 1) : TRUE].entries
EntriesOf(p, kind, of) ==
  {i \in DOMAIN Group1Entries(p) :
     Group1Entries(p)[i].kind = kind /\ Group1Entries(p)[i].of = of}
\* the naming chain of each texture name tried, written out
Chain ==
  [img |-> <<"imgSampler", "img_sampler">>,
   imgTex |-> <<"imgTexSampler", "imgTex_sampler", "imgSampler">>]
\* the candidates of a name that the plan b holds as samplers, by position
Declared(b, name) == {c \in DOMAIN Chain[name] : b.samplers[Chain[name][c]] # NoSlot}
FirstDeclared(b, name) ==
  Chain[name][CHOOSE c \in Declared(b, name) : \A c2 \in Declared(b, name) : c <= c2]
\* the uniforms that carry a texture and a sampler
SamplerUniforms ==
  {i \in DOMAIN uniforms :
     /\ uniforms[i].kind = "object"
     /\ "createView" \notin uniforms[i].props
     /\ {"texture", "sampler"} \subseteq uniforms[i].props}
\* C17: for a texture-valued uniform that carries a sampler and whose texture
\* slot was found, if a candidate of the chain `<name>Sampler`,
\* `<name>_sampler`, `<base>Sampler` (the last only for a name ending in
\* `Tex`) is declared, exactly one sampler entry is added for it, at the slot
\* of the earliest declared candidate.
C17_SamplerByNamingChain ==
  draws > 0 =>
    \A i \in SamplerUniforms :
      /\ (bindings.textures[keys[i]] # NoSlot /\ Declared(bindings, keys[i]) # {}) =>
           /\ Cardinality(EntriesOf(pass, "sampler", keys[i])) = 1
           /\ \A e \in EntriesOf(pass, "sampler", keys[i]) :
                Group1Entries(pass)[e].binding
                  = bindings.samplers[FirstDeclared(bindings, keys[i])]
      /\ Declared(bindings, keys[i]) = {} => EntriesOf(pass, "sampler", keys[i]) = {}
\* `imgTex_sampler` and `imgSampler` are declared and `imgTexSampler` is not:
\* the sampler of imgTex is bound at the slot of `imgTex_sampler`
C17_Witness ==
  /\ draws > 0
  /\ keys = <<"imgTex">>
  /\ SamplerUniforms = {1}
  /\ bindings.textures["imgTex"] = 0
  /\ bindings.samplers["imgTexSampler"] = NoSlot
  /\ bindings.samplers["imgTex_sampler"] = 1
  /\ bindings.samplers["imgSampler"] = 2
  /\ Group1Entries(pass) = <<Entry(0, "textureView", "imgTex"), Entry(1, "sampler", "imgTex")>>

\* the texture uniforms whose sampler the naming chain does not find
Unresolved(b) ==
  {i \in SamplerUniforms : b.textures[keys[i]] # NoSlot /\ Declared(b, keys[i]) = {}}
\* C18: when no candidate of the naming chain is declared, the draw logs one
\* warning for that texture, adds no sampler entry for it, keeps its texture
\* entry at the texture's slot, and still issues the draw call; warnings are
\* logged for these textures only.
C18_MissingSamplerIsWarning ==
  draws > 0 =>
    /\ \A i \in Unresolved(bindings) :
         /\ Cardinality({w \in DOMAIN warnings : warnings[w] = keys[i]}) = 1
         /\ EntriesOf(pass, "sampler", keys[i]) = {}
         /\ Cardinality(EntriesOf(pass, "textureView", keys[i])) = 1
         /\ \A e \in EntriesOf(pass, "textureView", keys[i]) :
              Group1Entries(pass)[e].binding = bindings.textures[keys[i]]
    /\ \A w \in DOMAIN warnings : \E i \in Unresolved(bindings) : warnings[w] = keys[i]
    /\ Drew(pass)
\* imgTex carries a sampler, its texture is declared and no candidate of its
\* chain is: one warning, the texture entry without a sampler, the draw call
C18_Witness ==
  /\ draws > 0
  /\ keys = <<"k", "imgTex">>
  /\ Unresolved(bindings) = {2}
  /\ bindings.textures["imgTex"] = 1
  /\ warnings = <<"imgTex">>
  /\ Group1Entries(pass) = <<Entry(0, "uniformBuffer", ""), Entry(1, "textureView", "imgTex")>>
  /\ Drew(pass)

\* the source declares, in group 1, a variable of one of the names at the slot
DeclaredAt(names, slot) ==
  \E d \in DOMAIN wgsl :
    wgsl[d].group = 1 /\ wgsl[d].name \in names /\ wgsl[d].binding = slot
\* the slot of entry e is one the plan b holds for e's kind and name, and the
\* source declares it
Discovered(b, e) ==
  /\ e.binding # NoSlot
  /\ CASE e.kind = "uniformBuffer" ->
            /\ e.binding = b.uniformBuffer
            /\ \E d \in DOMAIN wgsl :
                 /\ wgsl[d].group = 1 /\ wgsl[d].modifier = "uniform"
                 /\ wgsl[d].binding = e.binding
       [] e.kind = "textureView" ->
            e.binding = b.textures[e.of] /\ DeclaredAt({e.of}, e.binding)
       [] e.kind = "sampler" ->
            \E c \in DOMAIN Chain[e.of] :
              /\ e.binding = b.samplers[Chain[e.of][c]]
              /\ DeclaredAt({Chain[e.of][c]}, e.binding)
       [] e.kind = "storageBuffer" ->
            e.binding = b.storage[e.of] /\ DeclaredAt({e.of}, e.binding)
       [] OTHER -> FALSE
\* C19: every entry of the group-1 bind group of a draw carries a slot that
\* the resolver found in the source for the entry's kind and name; a uniform
\* buffer, a texture uniform or a bound storage buffer without a discovered
\* slot adds no entry, and the draw call is still issued.
C19_SlotsComeFromTheSource ==
  [][IsDraw =>
       /\ \A e \in DOMAIN Group1Entries(pass') :
            Discovered(bindings', Group1Entries(pass')[e])
       /\ (uniformBufferSize = 0 \/ bindings'.uniformBuffer = NoSlot) =>
            EntriesOf(pass', "uniformBuffer", "") = {}
       /\ \A i \in TextureUniforms :
            bindings'.textures[keys[i]] = NoSlot =>
              /\ EntriesOf(pass', "textureView", keys[i]) = {}
              /\ EntriesOf(pass', "sampler", keys[i]) = {}
       /\ \A i \in DOMAIN storageBuffers :
            bindings'.storage[storageBuffers[i].name] = NoSlot =>
              EntriesOf(pass', "storageBuffer", storageBuffers[i].name) = {}
       /\ Drew(pass')]_vars
\* a material with a uniform buffer and a bound storage buffer `a` was drawn
\* over a source that declares neither: only its texture got an entry
C19_Witness ==
  /\ draws > 0
  /\ uniformBufferSize > 0
  /\ bindings.uniformBuffer = NoSlot
  /\ storageBuffers = <<[name |-> "a", buffer |-> 1]>>
  /\ bindings.storage["a"] = NoSlot
  /\ bindings.textures["imgTex"] = 0
  /\ TextureUniforms # {}
  /\ Group1Entries(pass) = <<Entry(0, "textureView", "imgTex")>>

\* C20: resize(w, h) on a target whose dimensions are already (w, h) destroys
\* no texture, creates no texture or view, emits no event, and leaves the
\* texture, view, sampler, handle backing and dimensions as they were, so
\* any number of such calls leaves the state of no call.
C20_ResizeSameSizeIsNoOp ==
  [][(resizes' = resizes + 1 /\ rt'.width = rt.width /\ rt'.height = rt.height) =>
       /\ rt' = rt
       /\ gpu' = gpu
       /\ textureRefs' = textureRefs
       /\ memEvents' = memEvents
       /\ held' = held /\ holderView' = holderView]_vars
\* two resize calls were made on a live target that reports its events, and
\* the texture of the constructor is still the only one, with one event
C20_Witness ==
  /\ rt.state = "live"
  /\ rt.context
  /\ resizes = 2
  /\ Len(gpu.textures) = 1
  /\ ~gpu.textures[1].destroyed
  /\ rt.gpuTexture = 1
  /\ Len(memEvents) = 1

\* bytes per pixel of each format, as the claims list them
BytesOf ==
  [rgba8unorm |-> 4, rgba16float |-> 8, r16float |-> 2, rg16float |-> 4, r32float |-> 4]
\* the memory event of a texture of the given dimensions
TextureEvent(action, width, height, format) ==
  [type |-> "memory", resourceType |-> "texture",
   size |-> width * height * BytesOf[format], action |-> action]
\* C21: a target with a context emits, inside the operation itself and in
\* this order: one allocate event at construction, one resize event for every
\* resize that changes the dimensions and none for the others, one free event
\* at dispose; the size of each is width * height * bytesPerPixel(format) of
\* the dimensions at that moment, the new ones for a resize.
C21_MemoryEventsFollowLifecycle ==
  /\ []((rt.state # "none" /\ rt.context) =>
          /\ Len(memEvents) = Len(gpu.textures) + (IF rt.state = "disposed" THEN 1 ELSE 0)
          /\ \A i \in DOMAIN gpu.textures :
               memEvents[i] = TextureEvent(IF i = 1 THEN "allocate" ELSE "resize",
                                           gpu.textures[i].width, gpu.textures[i].height,
                                           rt.format)
          /\ rt.state = "disposed" =>
               memEvents[Len(memEvents)]
                 = TextureEvent("free", rt.width, rt.height, rt.format))
  /\ [][rt'.context =>
          /\ (rt.state = "none" /\ rt'.state = "live") =>
               memEvents' = <<TextureEvent("allocate", rt'.width, rt'.height, rt'.format)>>
          /\ resizes' = resizes + 1 =>
               memEvents' =
                 IF rt'.width = rt.width /\ rt'.height = rt.height THEN memEvents
                 ELSE Append(memEvents,
                             TextureEvent("resize", rt'.width, rt'.height, rt.format))
          /\ (rt.state = "live" /\ rt'.state = "disposed") =>
               memEvents' = Append(memEvents,
                                   TextureEvent("free", rt.width, rt.height, rt.format))
          /\ (rt'.state = rt.state /\ resizes' = resizes) => memEvents' = memEvents]_vars
\* a 1x2 rgba16float target was resized to 2x2, resized to 2x2 again and
\* disposed: allocate 16, resize 32, free 32
C21_Witness ==
  /\ rt.state = "disposed"
  /\ rt.context
  /\ rt.format = "rgba16float"
  /\ resizes = 2
  /\ memEvents = <<TextureEvent("allocate", 1, 2, "rgba16float"),
                   TextureEvent("resize", 2, 2, "rgba16float"),
                   TextureEvent("free", 2, 2, "rgba16float")>>

-----------------------------------------------------------------------------
\* C22: readPixels(x, y, w, h) creates a staging buffer of
\* ceil(w * bpp / 256) * 256 * h bytes and copies with a bytesPerRow of
\* ceil(w * bpp / 256) * 256, where bpp is the per-format value the memory
\* events use (rgba8unorm 4, rgba16float 8, r16float 2, rg16float 4,
\* r32float 4).
C22_StagingBufferSize ==
  \A i \in 1..Len(reads) :
    LET c == reads[i].copy
        row == RoundUp(c.width * BytesOf[rt.format], 256)
    IN /\ c.bytesPerRow = row
       /\ reads[i].size = row * c.height
       /\ readPixels_bytesPerPixel(rt.format) = bytesPerPixel[rt.format]

\* a 65-pixel row of rgba16float (520 bytes) is padded to 768, a 64-pixel row
\* (512 bytes) is not padded
C22_Witness ==
  /\ Len(reads) = 2
  /\ \E i \in 1..2 : reads[i].copy.width = 65 /\ reads[i].copy.height = 2
                     /\ reads[i].copy.bytesPerRow = 768 /\ reads[i].size = 1536
  /\ \E i \in 1..2 : reads[i].copy.width = 64 /\ reads[i].copy.bytesPerRow = 512
  /\ rt.format = "rgba16float"

\* C23: readPixels returns data only after the map, the copy out of the
\* mapped range and the unmap, in that order, and the staging buffer it
\* created is destroyed by the time the call completes.
Before(log, a, b) ==
  \E i, j \in 1..Len(log) : i < j /\ log[i] = a /\ log[j] = b

Completed(call) == call.result # "pending"

-----------------------------------------------------------------------------
\* C24: on an emitter constructed with an allow-list, emitting an event whose
\* type is not in the list leaves the history as it was and calls no
\* listener, and emitting an event whose type is in the list records it and
\* calls the listeners of its type and the all-events listeners.
AllowList == {options.types.list[k] : k \in DOMAIN options.types.list}

Emitted(t) == [type |-> t, id |-> eventIdCounter + 1]

RecordedAndDelivered(t) ==
  /\ recorded' = Append(recorded, Emitted(t))
  /\ maxHistory > 0 =>
       LET h == getHistory(history', historyIndex', isHistoryFull', <<>>)
       IN h[Len(h)] = Emitted(t)
  /\ notified' = listeners[t] \o allListeners

C24_AllowListFilters ==
  [][\A t \in EventTypes :
       (Emit(t) /\ options.types.given) =>
         IF t \in AllowList
         THEN RecordedAndDelivered(t)
         ELSE /\ UNCHANGED <<history, historyIndex, isHistoryFull, recorded>>
              /\ notified' = <<>>]_vars

\* with the list [draw], a draw event was recorded and then a memory event
\* was dropped although a memory listener and an all-events listener exist
C24_Witness ==
  /\ options.types = [given |-> TRUE, list |-> <<"draw">>]
  /\ maxHistory > 0
  /\ listeners["memory"] # <<>>
  /\ allListeners # <<>>
  /\ eventIdCounter = 2
  /\ recorded = <<[type |-> "draw", id |-> 1]>>
  /\ history = recorded
  /\ notified = <<>>

\* C25: an emitter constructed with `types: []` records and dispatches every
\* emitted event, exactly as an emitter constructed without `types`.
C25_EmptyListEmitsAll ==
  [][\A t \in EventTypes :
       (Emit(t) /\ options.types.given /\ options.types.list = <<>>) =>
         RecordedAndDelivered(t)]_vars

-----------------------------------------------------------------------------
\* C26: a listener subscribed with once(type, l) is called at most once,
\* whatever is emitted and also when a listener emits the same type while a
\* dispatch is in progress; and when the function once() returned is called
\* before any emit, l is never called.
CallsOf(entry) == {j \in DOMAIN trace : trace[j].op = "call" /\ trace[j].entry = entry}

CancelledBeforeEmit(k) ==
  \E c \in DOMAIN trace :
    /\ c > k
    /\ trace[c] = Step("cancel", trace[k].entry, NoEvent)
    /\ \A j \in k..c : trace[j].op # "emit"

C26_OnceIsCalledAtMostOnce ==
  \A k \in DOMAIN trace :
    trace[k].op = "once" =>
      /\ Cardinality(CallsOf(trace[k].entry)) <= 1
      /\ CancelledBeforeEmit(k) => CallsOf(trace[k].entry) = {}

\* C30: every listener is called with events in the order getHistory()
\* holds them, also when a listener emits during a dispatch; within one emit
\* the event is recorded before any listener is called with it, and the
\* listeners of its type are called before the all-events listeners.
HistoryPosition(event) ==
  LET h == getHistory(history, historyIndex, isHistoryFull, <<>>)
  IN {k \in DOMAIN h : h[k] = event}

IsCall(j) == trace[j].op = "call"

C30_ListenersSeeHistoryOrder ==
  /\ \A i \in DOMAIN trace, j \in DOMAIN trace :
       (IsCall(i) /\ IsCall(j) /\ i < j /\ trace[i].entry = trace[j].entry) =>
         \A a \in HistoryPosition(trace[i].event),
            b \in HistoryPosition(trace[j].event) : a < b
  /\ \A j \in DOMAIN trace :
       IsCall(j) => \E i \in 1..j : trace[i] = Step("record", NoEntry, trace[j].event)
  /\ \A i \in DOMAIN trace, j \in DOMAIN trace :
       (IsCall(i) /\ IsCall(j) /\ trace[i].event = trace[j].event
          /\ trace[i].entry.fn \in ListenerFns /\ trace[j].entry.fn \in AllFns) => i < j

-----------------------------------------------------------------------------
\* C27: a group-1 declaration in the storage address space has an entry
\* under its name in the storage map of the plan, with or without an access
\* mode in the qualifier (`storage`, `storage, read`, `storage, read_write`)
\* and whether its type is a struct or an `array<...>`.
StorageSpace(decl) ==
  /\ decl.group = 1
  /\ decl.modifier \in {"storage", "storage, read", "storage, read_write"}

C27_StorageSpaceIsInStorageMap ==
  parsed =>
    \A k \in DOMAIN wgsl :
      StorageSpace(wgsl[k]) => bindings.storage[wgsl[k].name] # NoSlot

-----------------------------------------------------------------------------
\* C28: when the group-1 declarations of the shader have pairwise distinct
\* binding numbers, the entries of the group-1 bind group of a draw have
\* pairwise distinct binding numbers, whatever the uniforms and the bound
\* storage buffers (also when two textures carry samplers and the naming
\* chains of both reach the one declared sampler).
DistinctDeclared ==
  \A i \in DOMAIN wgsl, j \in DOMAIN wgsl :
    (wgsl[i].group = 1 /\ wgsl[j].group = 1 /\ i # j) =>
      wgsl[i].binding # wgsl[j].binding

C28_NoSlotBoundTwice ==
  (draws > 0 /\ DistinctDeclared) =>
    \A i \in DOMAIN Group1Entries(pass), j \in DOMAIN Group1Entries(pass) :
      i # j => Group1Entries(pass)[i].binding # Group1Entries(pass)[j].binding

-----------------------------------------------------------------------------
\* C29: on a constructed target that was not disposed, after any resizes:
\* gpuTexture is the texture the stable handle exposes, the cached view was
\* made from it, width and height are the dimensions it was created with, it
\* is the only texture of the target that is not destroyed, and every
\* replaced texture was destroyed exactly once, before the texture that
\* replaced it was created.
C29_CurrentTextureIsTheOnlyLiveOne ==
  rt.state = "live" =>
    /\ rt.gpuTexture \in DOMAIN gpu.textures
    /\ TextureReference_texture(rt.textureRef) = rt.gpuTexture
    /\ gpu.views[rt.view].tex = rt.gpuTexture
    /\ gpu.textures[rt.gpuTexture].width = rt.width
    /\ gpu.textures[rt.gpuTexture].height = rt.height
    /\ \A i \in DOMAIN gpu.textures :
         IF i = rt.gpuTexture
         THEN ~gpu.textures[i].destroyed /\ gpu.textures[i].destroys = 0
         ELSE /\ gpu.textures[i].destroyed
              /\ gpu.textures[i].destroys = 1
              /\ gpu.textures[i].destroyedAt = i

\* two resizes that changed the size, while a holder keeps the handle
C29_Witness ==
  /\ rt.state = "live"
  /\ resizes = 2
  /\ held # 0
  /\ Len(gpu.textures) = 3
  /\ rt.gpuTexture = 3
  /\ gpu.textures[1].destroys = 1 /\ gpu.textures[2].destroys = 1
  /\ gpu.textures[2].destroyedAt = 2
  /\ gpu.textures[3].width # gpu.textures[2].width

====
